---------------------------- MODULE Spec2Model ----------------------------
(***************************************************************************)
(* A model of xml-serde: the tag grammar (src/src/tag.rs, src/src/lib.rs), *)
(* the serializer (src/src/ser.rs) and the deserializer (src/src/de.rs).   *)
(*                                                                         *)
(* Rust strings are sequences of items.  An item is a character Ch(c), the *)
(* characters of one serialized tag Mk(tok), the characters of one CDATA   *)
(* section Cd(s), or the entity-escaped form Esc(x) of an item x.  A       *)
(* document is a string like any other; the tokenizer reads its items.     *)
(***************************************************************************)
EXTENDS Integers, Sequences, FiniteSets, TLC

VARIABLES pc, inp, out

vars == <<pc, inp, out>>

---------------------------------------------------------------------------
(* Bounds of the model.                                                    *)

MaxPartLen == 2
MaxTagLen == 3

---------------------------------------------------------------------------
(* Strings and options.                                                    *)

Ch(c) == [k |-> "c", c |-> c]
Mk(tok) == [k |-> "m", tok |-> tok]
Cd(s) == [k |-> "d", s |-> s]
Esc(x) == [k |-> "e", of |-> x]

S(t) == [i \in 1..Len(t) |-> Ch(t[i])]

None == [some |-> FALSE, v |-> <<>>]
Some(v) == [some |-> TRUE, v |-> v]

Max(set) == CHOOSE m \in set : \A o \in set : o <= m
Min(set) == CHOOSE m \in set : \A o \in set : m <= o

StartsWith(s, pre) == Len(s) >= Len(pre) /\ SubSeq(s, 1, Len(pre)) = pre

RECURSIVE Concat(_)
Concat(ss) == IF ss = <<>> THEN <<>> ELSE Head(ss) \o Concat(Tail(ss))

RECURSIVE Join(_, _)
Join(ss, sep) ==
    IF ss = <<>> THEN <<>>
    ELSE IF Len(ss) = 1 THEN ss[1]
    ELSE ss[1] \o sep \o Join(Tail(ss), sep)

(* All sequences over alphabet of length lo..hi. *)
RECURSIVE SeqsOfLen(_, _)
SeqsOfLen(alphabet, n) ==
    IF n = 0 THEN {<<>>}
    ELSE {<<a>> \o r : a \in alphabet, r \in SeqsOfLen(alphabet, n - 1)}

SeqsUpTo(alphabet, lo, hi) == UNION {SeqsOfLen(alphabet, n) : n \in lo..hi}

---------------------------------------------------------------------------
(* The tag grammar.                                                        *)

NoCaps == [ok |-> FALSE, n |-> None, l |-> None, p |-> None, e |-> <<>>]

(* (?:(?P<p>.+):)?(?P<e>.+)$ on s from index from: p is greedy, so the     *)
(* last colon that leaves both p and e non-empty splits them.              *)
RestColons(s, from) == {i \in (from + 1)..(Len(s) - 1) : s[i] = Ch(":")}

RestPrefix(s, from) ==
    IF RestColons(s, from) # {}
    THEN Some(SubSeq(s, from, Max(RestColons(s, from)) - 1))
    ELSE None

RestLocal(s, from) ==
    IF RestColons(s, from) # {}
    THEN SubSeq(s, Max(RestColons(s, from)) + 1, Len(s))
    ELSE SubSeq(s, from, Len(s))

(* crate::NAME_RE: ^(?:\{(?P<n>.+)\})?(?:(?P<p>.+):)?(?P<e>.+)$            *)
(* It has no group l: Captures::name("l") is None on every match.          *)
LibBraces(s) ==
    IF Len(s) >= 1 /\ s[1] = Ch("{")
    THEN {j \in 3..(Len(s) - 1) : s[j] = Ch("}")}
    ELSE {}

LibCaptures(s) ==
    IF Len(s) = 0 THEN NoCaps
    ELSE IF LibBraces(s) # {}
    THEN LET j == Max(LibBraces(s))
         IN  [ok |-> TRUE, n |-> Some(SubSeq(s, 2, j - 1)), l |-> None,
              p |-> RestPrefix(s, j + 1), e |-> RestLocal(s, j + 1)]
    ELSE [ok |-> TRUE, n |-> None, l |-> None,
          p |-> RestPrefix(s, 1), e |-> RestLocal(s, 1)]

(* tag.rs NAME_RE: as crate::NAME_RE, but inside the braces n is one or    *)
(* more characters other than a semicolon, optionally followed by a        *)
(* semicolon and the hint l (any characters, greedy, possibly none).       *)
(* n runs at most to the character before the first semicolon.             *)
TagSemis(s) == {i \in 2..Len(s) : s[i] = Ch(";")}

TagNsLimit(s) == IF TagSemis(s) = {} THEN Len(s) ELSE Min(TagSemis(s)) - 1

(* With the hint: n is everything before the first semicolon, l is greedy. *)
TagHintCloses(s) ==
    IF Len(s) >= 1 /\ s[1] = Ch("{") /\ TagSemis(s) # {} /\ TagNsLimit(s) >= 2
    THEN {j \in (TagNsLimit(s) + 2)..(Len(s) - 1) : s[j] = Ch("}")}
    ELSE {}

(* Without the hint: the longest semicolon-free n followed by a brace.     *)
TagPlainCloses(s) ==
    IF Len(s) >= 1 /\ s[1] = Ch("{")
    THEN {j \in 3..(Len(s) - 1) : s[j] = Ch("}") /\ j - 1 <= TagNsLimit(s)}
    ELSE {}

TagCaptures(s) ==
    IF Len(s) = 0 THEN NoCaps
    ELSE IF TagHintCloses(s) # {}
    THEN LET j == Max(TagHintCloses(s))
         IN  [ok |-> TRUE, n |-> Some(SubSeq(s, 2, TagNsLimit(s))),
              l |-> Some(SubSeq(s, TagNsLimit(s) + 2, j - 1)),
              p |-> RestPrefix(s, j + 1), e |-> RestLocal(s, j + 1)]
    ELSE IF TagPlainCloses(s) # {}
    THEN LET j == Max(TagPlainCloses(s))
         IN  [ok |-> TRUE, n |-> Some(SubSeq(s, 2, j - 1)), l |-> None,
              p |-> RestPrefix(s, j + 1), e |-> RestLocal(s, j + 1)]
    ELSE [ok |-> TRUE, n |-> None, l |-> None,
          p |-> RestPrefix(s, 1), e |-> RestLocal(s, 1)]

(* Tag::new: the captures, unwrapped (a non-match panics).                 *)
TagNew(s) == TagCaptures(s)

---------------------------------------------------------------------------
(* The declared names the tag grammar is checked on.                       *)

NsChars == {"u", ":"}
HintChars == {"u", " "}
PrefixChars == {"p"}
LocalChars == {"e", "l"}
AnyChars == {"{", "}", ";", ":", "a"}

(* "{urn:ns;urn:ns loc.xsd}p:local" and its parts *)
UrnNs == <<"u", "r", "n", ":", "n", "s">>
LocXsd == UrnNs \o <<" ", "l", "o", "c", ".", "x", "s", "d">>
Local5 == <<"l", "o", "c", "a", "l">>

NsParts == {None} \cup {Some(S(t)) : t \in SeqsUpTo(NsChars, 1, MaxPartLen) \cup {UrnNs}}
HintParts == {None} \cup {Some(S(t)) : t \in SeqsUpTo(HintChars, 0, MaxPartLen) \cup {LocXsd}}
PrefixParts == {None} \cup {Some(S(t)) : t \in SeqsUpTo(PrefixChars, 1, MaxPartLen)}
LocalParts == {S(t) : t \in SeqsUpTo(LocalChars, 1, MaxPartLen) \cup {Local5}}

(* A name of the form {n;l}p:e, every part but e optional, a hint only     *)
(* inside a namespace brace.                                               *)
TagParts ==
    {[n |-> n, l |-> l, p |-> p, e |-> e] :
        n \in NsParts, l \in HintParts, p \in PrefixParts, e \in LocalParts}

WellFormedParts == {t \in TagParts : t.l.some => t.n.some}

FormatTag(t) ==
    (IF t.n.some
     THEN S(<<"{">>) \o t.n.v
          \o (IF t.l.some THEN S(<<";">>) \o t.l.v ELSE <<>>) \o S(<<"}">>)
     ELSE <<>>)
    \o (IF t.p.some THEN t.p.v \o S(<<":">>) ELSE <<>>)
    \o t.e

TagInputs ==
    {[form |-> TRUE, parts |-> t, name |-> FormatTag(t)] : t \in WellFormedParts}
    \cup {[form |-> FALSE, parts |-> [n |-> None, l |-> None, p |-> None, e |-> <<>>],
           name |-> S(t)] : t \in SeqsUpTo(AnyChars, 1, MaxTagLen)}

NoOut == [k |-> "none"]

TagInit == pc = "tag" /\ inp \in TagInputs /\ out = NoOut

(* Tag::new on the declared name. *)
ParseTagModule ==
    /\ pc = "tag"
    /\ TagNew(inp.name).ok
    /\ pc' = "tag_parsed"
    /\ out' = TagNew(inp.name)
    /\ UNCHANGED inp

(* NAME_RE.captures(..).unwrap() as ser.rs and de.rs call it. *)
ParseTagCrate ==
    /\ pc = "tag"
    /\ LibCaptures(inp.name).ok
    /\ pc' = "lib_parsed"
    /\ out' = LibCaptures(inp.name)
    /\ UNCHANGED inp

TagNext == ParseTagModule \/ ParseTagCrate

SpecTag == TagInit /\ [][TagNext]_vars


(* C2 (the parser of the tag module): a name of the form {n;l}p:e parses   *)
(* to namespace n, hint l, prefix p and local name e; a bare name to no    *)
(* namespace, no hint, no prefix; the local name is never empty and a hint *)
(* comes only with a namespace.                                            *)
C2_TagModuleParses ==
    pc = "tag_parsed" =>
        /\ Len(out.e) > 0
        /\ out.l.some => out.n.some
        /\ inp.form =>
            /\ out.n = inp.parts.n
            /\ out.l = inp.parts.l
            /\ out.p = inp.parts.p
            /\ out.e = inp.parts.e

(* C2 (the parser ser.rs and de.rs use): the same, of crate::NAME_RE.      *)
C2_CrateParses ==
    pc = "lib_parsed" =>
        /\ Len(out.e) > 0
        /\ out.l.some => out.n.some
        /\ inp.form =>
            /\ out.n = inp.parts.n
            /\ out.l = inp.parts.l
            /\ out.p = inp.parts.p
            /\ out.e = inp.parts.e

(* C2: tag parsing.  For a declared name of the form {n;l}p:e both parsers *)
(* return namespace n, schema-location hint l, prefix p and local name e;  *)
(* for a bare name no namespace, no hint, no prefix and the name itself;   *)
(* the local name is always present and non-empty and a hint is present    *)
(* only with a namespace.                                                  *)
C2_TagParsing == C2_TagModuleParses /\ C2_CrateParses

---------------------------------------------------------------------------
(* Values as serde presents them to the serializer.                        *)

VStr(s) == [k |-> "str", s |-> s]
VInt(i) == [k |-> "int", i |-> i]
VBool(b) == [k |-> "bool", b |-> b]
(* A float: m / 10^d, with no trailing zero in the d fraction digits. *)
VFloat(m, d) == [k |-> "float", m |-> m, d |-> d]
VNone == [k |-> "none"]
VSome(v) == [k |-> "some", v |-> v]
VUnit == [k |-> "unit"]
VSeq(vs) == [k |-> "seq", vs |-> vs]
VStruct(fs) == [k |-> "struct", fs |-> fs]
VUnitVariant(tag) == [k |-> "unit_variant", tag |-> tag]
VNewtypeVariant(tag, v) == [k |-> "newtype_variant", tag |-> tag, v |-> v]
VTupleVariant(tag, vs) == [k |-> "tuple_variant", tag |-> tag, vs |-> vs]
VStructVariant(tag, fs) == [k |-> "struct_variant", tag |-> tag, fs |-> fs]

(* One (key, value) pair of a record. *)
FV(key, v) == [key |-> key, v |-> v]

AttrSentinel == S(<<"$", "a", "t", "t", "r", ":">>)
ValueSentinel == S(<<"$", "v", "a", "l", "u", "e">>)
ValueRawSentinel == ValueSentinel \o S(<<"R", "a", "w">>)

Digits == <<"0", "1", "2", "3", "4", "5", "6", "7", "8", "9">>

(* u64::to_string / i64::to_string *)
RECURSIVE NatToStr(_)
NatToStr(n) ==
    IF n < 10 THEN <<Ch(Digits[n + 1])>>
    ELSE NatToStr(n \div 10) \o <<Ch(Digits[(n % 10) + 1])>>

IntToStr(i) == IF i < 0 THEN S(<<"-">>) \o NatToStr(-i) ELSE NatToStr(i)

TrueStr == S(<<"t", "r", "u", "e">>)
FalseStr == S(<<"f", "a", "l", "s", "e">>)
Comma == S(<<",">>)

---------------------------------------------------------------------------
(* Phase 1: the intermediate value tree (_SerializerData).                 *)

DCData(s) == [k |-> "CData", s |-> s]
DString(s) == [k |-> "String", s |-> s]
DSeq(items) == [k |-> "Seq", items |-> items]
DStruct(attrs, contents) == [k |-> "Struct", attrs |-> attrs, contents |-> contents]

(* _SerializerData::as_str *)
RECURSIVE AsStr(_)
AsStr(d) ==
    CASE d.k = "CData" -> d.s
      [] d.k = "String" -> d.s
      [] d.k = "Seq" -> Join([i \in 1..Len(d.items) |-> AsStr(d.items[i])], Comma)
      [] d.k = "Struct" ->
            Join([i \in 1..Len(d.contents) |-> AsStr(d.contents[i].d)], Comma)

IsAttrKey(key) == StartsWith(key, AttrSentinel)

RECURSIVE Serialize(_)

(* StructSerializer::serialize_field, once per field in declaration order: *)
(* the attribute list of the record.                                       *)
StructAttrs(fs) ==
    LET flagged == SelectSeq(fs, LAMBDA f : IsAttrKey(f.key))
    IN  [i \in 1..Len(flagged) |->
            [name |-> SubSeq(flagged[i].key, 7, Len(flagged[i].key)),
             value |-> AsStr(Serialize(flagged[i].v))]]

(* ... and its (tag, node) list. *)
StructKeys(fs) ==
    LET plain == SelectSeq(fs, LAMBDA f : ~IsAttrKey(f.key))
    IN  [i \in 1..Len(plain) |-> [tag |-> plain[i].key, d |-> Serialize(plain[i].v)]]

SerializeUnitVariant(v) == DCData(v.tag)

SerializeNewtypeVariant(v) ==
    DStruct(<<>>, <<[tag |-> v.tag, d |-> Serialize(v.v)]>>)

SerializeTupleVariant(v) == DSeq([i \in 1..Len(v.vs) |-> Serialize(v.vs[i])])

SerializeStructVariant(v) ==
    DStruct(<<>>, <<[tag |-> v.tag, d |-> DStruct(StructAttrs(v.fs), StructKeys(v.fs))]>>)

SerializeStruct(v) == DStruct(StructAttrs(v.fs), StructKeys(v.fs))

SerializeSeq(v) == DSeq([i \in 1..Len(v.vs) |-> Serialize(v.vs[i])])

Serialize(v) ==
    CASE v.k = "str" -> DCData(v.s)
      [] v.k = "int" -> DString(IntToStr(v.i))
      [] v.k = "bool" -> DString(IF v.b THEN TrueStr ELSE FalseStr)
      [] v.k = "none" -> DString(<<>>)
      [] v.k = "some" -> Serialize(v.v)
      [] v.k = "seq" -> SerializeSeq(v)
      [] v.k = "struct" -> SerializeStruct(v)
      [] v.k = "unit_variant" -> SerializeUnitVariant(v)
      [] v.k = "newtype_variant" -> SerializeNewtypeVariant(v)
      [] v.k = "tuple_variant" -> SerializeTupleVariant(v)
      [] v.k = "struct_variant" -> SerializeStructVariant(v)

---------------------------------------------------------------------------
(* Phase 2: linearization (format_data) into writer events.                *)

Name(local, ns, prefix) == [local |-> local, ns |-> ns, prefix |-> prefix]

WStart(name, attrs, ns) == [t |-> "start", name |-> name, attrs |-> attrs, ns |-> ns]
WEnd == [t |-> "end", name |-> None]
WChars(s) == [t |-> "chars", s |-> s]
WCData(s) == [t |-> "cdata", s |-> s]

XsiPrefix == S(<<"x", "s", "i">>)
XsiUri == <<Ch("http://www.w3.org/2001/XMLSchema-instance")>>
SchemaLocation == <<Ch("schemaLocation")>>
DotXsd == S(<<".", "x", "s", "d">>)
Space == S(<<" ">>)
Colon == S(<<":">>)

(* xml::escape::escape_str_pcdata: < and & become entities.  The text of a *)
(* tag, of a CDATA section or of an entity holds one of the two.           *)
NeedsEscape(x) == x.k \in {"m", "d", "e"} \/ (x.k = "c" /\ x.c \in {"<", "&"})

EscapePcdata(s) == [i \in 1..Len(s) |-> IF NeedsEscape(s[i]) THEN Esc(s[i]) ELSE s[i]]

(* Namespace::put: the first binding of a prefix stays. *)
NsPut(m, prefix, uri) ==
    IF \E b \in m : b.prefix = prefix THEN m
    ELSE m \cup {[prefix |-> prefix, uri |-> uri]}

(* n.rsplit(':').next().unwrap() *)
LastSegment(n) ==
    LET colons == {i \in 1..Len(n) : n[i] = Ch(":")}
    IN  IF colons = {} THEN n ELSE SubSeq(n, Max(colons) + 1, Len(n))

SerializerState(include) ==
    [raw_output |-> FALSE, ns_stack |-> <<>>,
     include_schema_location |-> include, panic |-> FALSE]

(* The attribute list of the node an element is opened for. *)
NodeAttrs(d) == IF d.k = "Struct" THEN d.attrs ELSE <<>>

AttrName(attr_k) ==
    LET caps == LibCaptures(attr_k)
    IN  Name(caps.e, caps.n, caps.p)

(* Attributes taken also from the members of a sequence the element is     *)
(* opened for.                                                             *)
RECURSIVE ElementAttrsThroughSeq(_)
ElementAttrsThroughSeq(d) ==
    IF d.k = "Seq"
    THEN Concat([i \in 1..Len(d.items) |-> ElementAttrsThroughSeq(d.items[i])])
    ELSE [i \in 1..Len(NodeAttrs(d)) |->
            [name |-> AttrName(NodeAttrs(d)[i].name), value |-> NodeAttrs(d)[i].value]]

ElementAttrs(d) ==
    [i \in 1..Len(NodeAttrs(d)) |->
        [name |-> AttrName(NodeAttrs(d)[i].name), value |-> NodeAttrs(d)[i].value]]

AttrsPanic(d) == \E i \in 1..Len(NodeAttrs(d)) : ~LibCaptures(NodeAttrs(d)[i].name).ok

ElementName(caps) == IF caps.p.some THEN caps.p.v \o Colon \o caps.e ELSE caps.e

(* An element that takes its namespace as new whatever the stack holds. *)
IntroducesAlways(caps, st) == caps.n.some

(* Whether the element introduces its namespace: it is not on the stack. *)
Introduces(caps, st) ==
    caps.n.some /\ ~(\E i \in 1..Len(st.ns_stack) : st.ns_stack[i] = caps.n.v)

SchemaLoc(caps) ==
    IF caps.l.some THEN caps.n.v \o Space \o caps.l.v
    ELSE caps.n.v \o Space \o LastSegment(caps.n.v) \o DotXsd

(* The bindings of an element that binds xsi whatever the options say. *)
ElementNsAlwaysXsi(caps, st) ==
    IF caps.n.some
    THEN NsPut(NsPut({}, XsiPrefix, XsiUri), IF caps.p.some THEN caps.p.v ELSE <<>>, caps.n.v)
    ELSE NsPut({}, XsiPrefix, XsiUri)

ElementNs(caps, st) ==
    LET xsi == IF st.include_schema_location
               THEN NsPut({}, XsiPrefix, XsiUri) ELSE {}
    IN  IF caps.n.some
        THEN NsPut(xsi, IF caps.p.some THEN caps.p.v ELSE <<>>, caps.n.v)
        ELSE xsi

SchemaLocAttr(caps, st) ==
    IF Introduces(caps, st) /\ st.include_schema_location
    THEN <<[name |-> Name(SchemaLocation, None, Some(XsiPrefix)),
            value |-> SchemaLoc(caps)]>>
    ELSE <<>>

RECURSIVE FormatData(_, _)
RECURSIVE FormatItems(_, _)
RECURSIVE FormatContents(_, _)
RECURSIVE FormatElements(_, _, _)

(* One element for node d under the parsed tag caps: start tag with the    *)
(* namespace bindings, the schema location and the node's attributes, the  *)
(* content, the end tag, and the pop of the namespace it pushed.           *)
FormatElement(caps, d, st) ==
    LET st1 == IF Introduces(caps, st)
               THEN [st EXCEPT !.ns_stack = Append(@, caps.n.v)] ELSE st
        st2 == IF AttrsPanic(d) THEN [st1 EXCEPT !.panic = TRUE] ELSE st1
        inner == FormatData(d, st2)
        start == WStart(ElementName(caps), SchemaLocAttr(caps, st) \o ElementAttrs(d),
                        ElementNs(caps, st))
    IN  [ev |-> <<start>> \o inner.ev \o <<WEnd>>,
         st |-> IF Introduces(caps, st)
                THEN [inner.st EXCEPT
                        !.ns_stack = SubSeq(@, 1, Len(@) - 1)]
                ELSE inner.st]

(* A sequence under one tag written as one element around its members. *)
FormatElementsWrapped(caps, items, st) == FormatElement(caps, DSeq(items), st)

(* A sequence under one tag: one sibling element per member. *)
FormatElements(caps, items, st) ==
    IF items = <<>> THEN [ev |-> <<>>, st |-> st]
    ELSE LET first == FormatElement(caps, Head(items), st)
             rest == FormatElements(caps, Tail(items), first.st)
         IN  [ev |-> first.ev \o rest.ev, st |-> rest.st]

(* An entry whose $valueRaw leaves the raw flag set behind it. *)
FormatEntryRawKept(entry, st) ==
    IF entry.tag = ValueRawSentinel
    THEN FormatData(entry.d, [st EXCEPT !.raw_output = TRUE])
    ELSE IF StartsWith(entry.tag, ValueSentinel)
    THEN FormatData(entry.d, st)
    ELSE IF ~LibCaptures(entry.tag).ok
    THEN [ev |-> <<>>, st |-> [st EXCEPT !.panic = TRUE]]
    ELSE IF entry.d.k = "Seq"
    THEN FormatElements(LibCaptures(entry.tag), entry.d.items, st)
    ELSE FormatElement(LibCaptures(entry.tag), entry.d, st)

(* One (tag, node) entry of a structured node. *)
FormatEntry(entry, st) ==
    IF entry.tag = ValueRawSentinel
    THEN LET r == FormatData(entry.d, [st EXCEPT !.raw_output = TRUE])
         IN  [ev |-> r.ev, st |-> [r.st EXCEPT !.raw_output = st.raw_output]]
    ELSE IF StartsWith(entry.tag, ValueSentinel)
    THEN FormatData(entry.d, st)
    ELSE IF ~LibCaptures(entry.tag).ok
    THEN [ev |-> <<>>, st |-> [st EXCEPT !.panic = TRUE]]
    ELSE IF entry.d.k = "Seq"
    THEN FormatElements(LibCaptures(entry.tag), entry.d.items, st)
    ELSE FormatElement(LibCaptures(entry.tag), entry.d, st)

FormatContents(contents, st) ==
    IF contents = <<>> THEN [ev |-> <<>>, st |-> st]
    ELSE LET first == FormatEntry(Head(contents), st)
             rest == FormatContents(Tail(contents), first.st)
         IN  [ev |-> first.ev \o rest.ev, st |-> rest.st]

FormatItems(items, st) ==
    IF items = <<>> THEN [ev |-> <<>>, st |-> st]
    ELSE LET first == FormatData(Head(items), st)
             rest == FormatItems(Tail(items), first.st)
         IN  [ev |-> first.ev \o rest.ev, st |-> rest.st]

FormatData(d, st) ==
    CASE d.k = "CData" ->
            [ev |-> <<WCData(IF st.raw_output THEN d.s ELSE EscapePcdata(d.s))>>,
             st |-> st]
      [] d.k = "String" ->
            [ev |-> <<WChars(IF st.raw_output THEN d.s ELSE EscapePcdata(d.s))>>,
             st |-> st]
      [] d.k = "Seq" -> FormatItems(d.items, st)
      [] d.k = "Struct" -> FormatContents(d.contents, st)

---------------------------------------------------------------------------
(* The XML emitter the serializer writes to (xml::writer::EventWriter), by *)
(* what it does to the writer's events under the configuration the code    *)
(* gives it.                                                               *)

EmitterConfig(indent, decl, normalize, cdata_to_chars, keep_names, escaping) ==
    [perform_indent |-> indent, write_document_declaration |-> decl,
     normalize_empty_elements |-> normalize, cdata_to_characters |-> cdata_to_chars,
     keep_element_names_stack |-> keep_names, perform_escaping |-> escaping]

(* to_string_custom's configuration: escaping is left to format_data. *)
ToStringConfig == EmitterConfig(TRUE, TRUE, TRUE, TRUE, TRUE, FALSE)

(* parse_string's configuration for a captured subtree. *)
CaptureConfig == EmitterConfig(FALSE, FALSE, TRUE, FALSE, FALSE, TRUE)

Newline == Ch("\n")
Whitespace == {" ", "\n", "\t"}

Token(t, name, attrs, ns) == [t |-> t, name |-> name, attrs |-> attrs, ns |-> ns]
DeclToken == [t |-> "decl"]
CloseToken(name) == [t |-> "close", name |-> name]

QName(name) == IF name.prefix.some THEN name.prefix.v \o Colon \o name.local ELSE name.local

EmitterInit ==
    [out |-> <<>>, nst |-> <<>>, names |-> <<>>, flags |-> <<"nothing">>, level |-> 0,
     just_wrote_start |-> FALSE, started |-> FALSE, err |-> FALSE]

SetTop(flags, f) == [flags EXCEPT ![Len(flags)] = f]

(* check_document_started *)
EmitStarted(cfg, es) ==
    IF es.started THEN es
    ELSE IF cfg.write_document_declaration
    THEN [es EXCEPT !.started = TRUE, !.out = Append(@, Mk(DeclToken)),
                    !.flags = SetTop(@, "markup")]
    ELSE [es EXCEPT !.started = TRUE]

(* The bindings the element adds to the scope (put_checked): those no open *)
(* element carries already.                                                *)
NewBindings(es, ns) == {b \in ns : ~(\E i \in 1..Len(es.nst) : b \in es.nst[i])}

WrittenBindings(es, ns) == {b \in NewBindings(es, ns) : ~(b.prefix = <<>> /\ b.uri = <<>>)}

(* escape_str_attribute: quotes and > become entities as well. *)
NeedsAttrEscape(x) == NeedsEscape(x) \/ (x.k = "c" /\ x.c \in {">", "\"", "'"})

EscapeAttribute(s) == [i \in 1..Len(s) |-> IF NeedsAttrEscape(s[i]) THEN Esc(s[i]) ELSE s[i]]

EmitAttrs(cfg, attrs) ==
    [i \in 1..Len(attrs) |->
        [name |-> QName(attrs[i].name),
         value |-> IF cfg.perform_escaping THEN EscapeAttribute(attrs[i].value)
                   ELSE attrs[i].value]]

EmitStart(cfg, es0, e) ==
    LET es == EmitStarted(cfg, es0)
        top == es.flags[Len(es.flags)]
        indent == cfg.perform_indent /\ top # "text" /\ (es.level > 0 \/ top = "markup")
        tok == Token("open", e.name, EmitAttrs(cfg, e.attrs), WrittenBindings(es, e.ns))
    IN  [es EXCEPT
            !.out = @ \o (IF indent THEN <<Newline>> ELSE <<>>) \o <<Mk(tok)>>,
            !.nst = Append(@, NewBindings(es, e.ns)),
            !.names = IF cfg.keep_element_names_stack THEN Append(@, e.name) ELSE @,
            !.flags = Append(IF indent /\ es.level > 0 THEN SetTop(@, "markup") ELSE @,
                             "markup"),
            !.level = @ + 1,
            !.just_wrote_start = cfg.normalize_empty_elements]

(* The name the end tag is written with: the last started element's when   *)
(* the stack of names is kept, else the event's own.                       *)
EndName(cfg, es, e) ==
    IF cfg.keep_element_names_stack
    THEN IF es.names = <<>> THEN None
         ELSE IF e.name.some /\ e.name.v # es.names[Len(es.names)] THEN None
         ELSE Some(es.names[Len(es.names)])
    ELSE e.name

EmitEnd(cfg, es, e) ==
    LET name == EndName(cfg, es, e)
        top == es.flags[Len(es.flags)]
        indent == cfg.perform_indent /\ es.level > 0 /\ top = "markup"
        last == es.out[Len(es.out)]
        closed == IF es.level > 0
                  THEN [es EXCEPT !.level = @ - 1,
                                  !.flags = SetTop(SubSeq(@, 1, Len(@) - 1), "markup")]
                  ELSE [es EXCEPT !.flags = SetTop(@, "markup")]
        popped == [closed EXCEPT
                     !.nst = IF @ = <<>> THEN @ ELSE SubSeq(@, 1, Len(@) - 1),
                     !.names = IF cfg.keep_element_names_stack
                               THEN SubSeq(@, 1, Len(@) - 1) ELSE @,
                     !.just_wrote_start = FALSE]
    IN  IF ~name.some THEN [es EXCEPT !.err = TRUE]
        ELSE IF cfg.normalize_empty_elements /\ es.just_wrote_start
        THEN [popped EXCEPT
                !.out = SubSeq(@, 1, Len(@) - 1)
                        \o <<Mk([last.tok EXCEPT !.t = "empty"])>>]
        ELSE [popped EXCEPT
                !.out = @ \o (IF indent THEN <<Newline>> ELSE <<>>)
                          \o <<Mk(CloseToken(name.v))>>]

EmitCharacters(cfg, es0, s) ==
    LET es == EmitStarted(cfg, es0)
    IN  [es EXCEPT
            !.out = @ \o (IF cfg.perform_escaping THEN EscapePcdata(s) ELSE s),
            !.flags = SetTop(@, "text"),
            !.just_wrote_start = FALSE]

EmitCData(cfg, es, s) ==
    IF cfg.cdata_to_characters THEN EmitCharacters(cfg, es, s)
    ELSE [es EXCEPT !.out = Append(@, Cd(s)), !.flags = SetTop(@, "text"),
                    !.just_wrote_start = FALSE]

EmitEvent(cfg, es, e) ==
    IF es.err THEN es
    ELSE CASE e.t = "start" -> EmitStart(cfg, es, e)
           [] e.t = "end" -> EmitEnd(cfg, es, e)
           [] e.t = "chars" -> EmitCharacters(cfg, es, e.s)
           [] e.t = "cdata" -> EmitCData(cfg, es, e.s)

RECURSIVE EmitAll(_, _, _)
EmitAll(cfg, es, events) ==
    IF events = <<>> THEN es
    ELSE EmitAll(cfg, EmitEvent(cfg, es, Head(events)), Tail(events))

(* to_string_custom: phase 1, phase 2, and the text the emitter wrote.      *)
to_string_custom(v, include) ==
    LET val == Serialize(v)
        r == FormatData(val, SerializerState(include))
        es == EmitAll(ToStringConfig, EmitterInit, r.ev)
    IN  [ok |-> ~r.st.panic /\ ~es.err, text |-> es.out, events |-> r.ev,
         tree |-> val, st |-> r.st]

to_string(v) == to_string_custom(v, TRUE)

---------------------------------------------------------------------------
(* The XML tokenizer the deserializer reads from (xml::reader::EventReader *)
(* with trim_whitespace and whitespace_to_characters), by what it does to  *)
(* a document.                                                             *)

RStartDocument == [t |-> "StartDocument"]
REndDocument == [t |-> "EndDocument"]
RError == [t |-> "Error"]
RStart(name, attrs, ns) == [t |-> "Start", name |-> name, attrs |-> attrs, ns |-> ns]
REnd(name) == [t |-> "End", name |-> name]
RChars(s) == [t |-> "Chars", s |-> s]
RCData(s) == [t |-> "CData", s |-> s]

IsSpace(x) == x.k = "c" /\ x.c \in Whitespace

RECURSIVE TrimStart(_)
TrimStart(s) == IF s # <<>> /\ IsSpace(Head(s)) THEN TrimStart(Tail(s)) ELSE s

RECURSIVE TrimEnd(_)
TrimEnd(s) ==
    IF s # <<>> /\ IsSpace(s[Len(s)]) THEN TrimEnd(SubSeq(s, 1, Len(s) - 1)) ELSE s

Trim(s) == TrimEnd(TrimStart(s))

(* A < or & written as it is does not read back as text. *)
IsMalformedText(x) == x.k = "c" /\ x.c \in {"<", "&"}

(* The text an entity, or a plain character, stands for. *)
Unescape(x) == IF x.k = "e" THEN x.of ELSE x

UnescapeAll(s) == [i \in 1..Len(s) |-> Unescape(s[i])]

(* prefix:local at the first colon *)
SplitQName(q) ==
    LET colons == {i \in 1..Len(q) : q[i] = Ch(":")}
    IN  IF colons = {} THEN [prefix |-> None, local |-> q]
        ELSE [prefix |-> Some(SubSeq(q, 1, Min(colons) - 1)),
              local |-> SubSeq(q, Min(colons) + 1, Len(q))]

(* The bindings in scope once an element declares ns: a prefix it declares *)
(* shadows the outer one.                                                  *)
Scope(outer, ns) == {b \in outer : ~(\E d \in ns : d.prefix = b.prefix)} \cup ns

Bound(scope, prefix) == \E b \in scope : b.prefix = prefix

Lookup(scope, prefix) == (CHOOSE b \in scope : b.prefix = prefix).uri

ResolveElement(scope, q) ==
    LET parts == SplitQName(q)
    IN  IF parts.prefix.some
        THEN Name(parts.local, Some(Lookup(scope, parts.prefix.v)), parts.prefix)
        ELSE IF Bound(scope, <<>>) /\ Lookup(scope, <<>>) # <<>>
        THEN Name(parts.local, Some(Lookup(scope, <<>>)), None)
        ELSE Name(parts.local, None, None)

ResolveAttr(scope, q) ==
    LET parts == SplitQName(q)
    IN  IF parts.prefix.some
        THEN Name(parts.local, Some(Lookup(scope, parts.prefix.v)), parts.prefix)
        ELSE Name(parts.local, None, None)

Unbound(scope, q) ==
    SplitQName(q).prefix.some /\ ~Bound(scope, SplitQName(q).prefix.v)

TagMalformed(scope, tok) ==
    \/ Unbound(scope, tok.name)
    \/ \E i \in 1..Len(tok.attrs) :
          \/ Unbound(scope, tok.attrs[i].name)
          \/ \E j \in 1..Len(tok.attrs[i].value) : IsMalformedText(tok.attrs[i].value[j])

ReadAttrs(scope, attrs) ==
    [i \in 1..Len(attrs) |->
        [name |-> ResolveAttr(scope, attrs[i].name), value |-> UnescapeAll(attrs[i].value)]]

ReaderInit ==
    [ev |-> <<RStartDocument>>, scopes |-> <<{}>>, open |-> <<>>, text |-> <<>>,
     root |-> FALSE, err |-> FALSE]

(* The pending character data, trimmed; nothing when only whitespace. *)
FlushText(rs) ==
    LET t == Trim(rs.text)
    IN  IF t = <<>> THEN [rs EXCEPT !.text = <<>>]
        ELSE IF rs.open = <<>> THEN [rs EXCEPT !.err = TRUE]
        ELSE [rs EXCEPT !.text = <<>>, !.ev = Append(@, RChars(t))]

ReadOpen(rs0, tok) ==
    LET rs == FlushText(rs0)
        scope == Scope(rs.scopes[Len(rs.scopes)], tok.ns)
        name == ResolveElement(scope, tok.name)
        start == RStart(name, ReadAttrs(scope, tok.attrs), scope)
    IN  IF rs.err \/ TagMalformed(scope, tok) THEN [rs EXCEPT !.err = TRUE]
        ELSE IF tok.t = "empty"
        THEN [rs EXCEPT !.ev = @ \o <<start, REnd(name)>>, !.root = TRUE]
        ELSE [rs EXCEPT !.ev = Append(@, start), !.root = TRUE,
                        !.scopes = Append(@, scope),
                        !.open = Append(@, [q |-> tok.name, name |-> name])]

ReadClose(rs0, tok) ==
    LET rs == FlushText(rs0)
    IN  IF rs.err \/ rs.open = <<>> THEN [rs EXCEPT !.err = TRUE]
        ELSE IF rs.open[Len(rs.open)].q # tok.name THEN [rs EXCEPT !.err = TRUE]
        ELSE [rs EXCEPT !.ev = Append(@, REnd(rs.open[Len(rs.open)].name)),
                        !.scopes = SubSeq(@, 1, Len(@) - 1),
                        !.open = SubSeq(@, 1, Len(@) - 1)]

ReadCData(rs0, x) ==
    LET rs == FlushText(rs0)
    IN  IF rs.err \/ rs.open = <<>> THEN [rs EXCEPT !.err = TRUE]
        ELSE [rs EXCEPT !.ev = Append(@, RCData(x.s))]

ReadItem(rs, x) ==
    IF rs.err THEN rs
    ELSE CASE x.k = "m" /\ x.tok.t \in {"open", "empty"} -> ReadOpen(rs, x.tok)
           [] x.k = "m" /\ x.tok.t = "close" -> ReadClose(rs, x.tok)
           [] x.k = "m" /\ x.tok.t = "decl" ->
                 IF Len(rs.ev) = 1 /\ rs.text = <<>> THEN rs ELSE [rs EXCEPT !.err = TRUE]
           [] x.k = "d" -> ReadCData(rs, x)
           [] x.k = "e" -> [rs EXCEPT !.text = Append(@, x.of)]
           [] x.k = "c" ->
                 IF IsMalformedText(x) THEN [rs EXCEPT !.err = TRUE]
                 ELSE [rs EXCEPT !.text = Append(@, x)]

RECURSIVE ReadItems(_, _)
ReadItems(rs, doc) ==
    IF doc = <<>> THEN rs ELSE ReadItems(ReadItem(rs, Head(doc)), Tail(doc))

(* The events of a document: those read before the first error, then the  *)
(* error; else the events and the end of the document.                     *)
ReadEvents(doc) ==
    LET rs == FlushText(ReadItems(ReaderInit, doc))
    IN  IF rs.err \/ rs.open # <<>> \/ ~rs.root THEN Append(rs.ev, RError)
        ELSE Append(rs.ev, REndDocument)

---------------------------------------------------------------------------
(* Shapes: the types whose derived Deserialize impls drive the decoder.    *)

TString == [k |-> "String"]
TI8 == [k |-> "i8"]
TBool == [k |-> "bool"]
TU8 == [k |-> "u8"]
TU64 == [k |-> "u64"]
TF64 == [k |-> "f64"]
TOption(t) == [k |-> "Option", of |-> t]
TVec(t) == [k |-> "Vec", of |-> t]
TStruct(fields) == [k |-> "struct", fields |-> fields]
TEnum(variants) == [k |-> "enum", variants |-> variants]
TIgnoredAny == [k |-> "IgnoredAny"]
TUnit == [k |-> "unit"]

(* A field of a record type: its declared name, its type, and whether it   *)
(* is declared with #[serde(default)].                                     *)
FT(key, ty) == [key |-> key, ty |-> ty, dflt |-> FALSE]
FTDefault(key, ty) == [key |-> key, ty |-> ty, dflt |-> TRUE]

UnitV(tag) == [tag |-> tag, kind |-> "unit"]
NewtypeV(tag, ty) == [tag |-> tag, kind |-> "newtype", ty |-> ty]
TupleV(tag, tys) == [tag |-> tag, kind |-> "tuple", tys |-> tys]
StructV(tag, fields) == [tag |-> tag, kind |-> "struct", fields |-> fields]

Nil == [k |-> "nil"]

---------------------------------------------------------------------------
(* The deserializer: its state, and the events it reads through a          *)
(* multi-peek iterator (pos: the next event, pk: the peek index).          *)

Deserializer(events) ==
    [ev |-> events, pos |-> 2, pk |-> 0, depth |-> 0, is_map_value |-> FALSE, err |-> ""]

Res(de, val) == [de |-> de, val |-> val]

Failed(de) == de.err # ""

Fail(de, e) == IF Failed(de) THEN de ELSE [de EXCEPT !.err = e]

NoEvent == [t |-> "None"]

EventAt(de, i) == IF i \in 1..Len(de.ev) THEN de.ev[i] ELSE NoEvent

(* The event the next peek() shows, and peek() itself. *)
Peeked(de) == EventAt(de, de.pos + de.pk)

peek(de) ==
    IF Failed(de) THEN de
    ELSE CASE Peeked(de).t = "None" -> Fail(de, "ExpectedElement")
           [] Peeked(de).t = "Error" -> Fail([de EXCEPT !.pk = @ + 1], "Syntax")
           [] OTHER -> [de EXCEPT !.pk = @ + 1]

(* A reset that leaves the lookahead where it is. *)
ResetPeekKept(de) == de

reset_peek(de) == [de EXCEPT !.pk = 0]

(* The event the next next() returns, and next() itself. *)
Taken(de) == EventAt(de, de.pos)

next(de) ==
    IF Failed(de) THEN de
    ELSE CASE Taken(de).t = "None" -> Fail(de, "ExpectedElement")
           [] Taken(de).t = "Error" -> Fail([de EXCEPT !.pos = @ + 1, !.pk = 0], "Syntax")
           [] Taken(de).t = "Start" ->
                 [de EXCEPT !.pos = @ + 1, !.pk = 0, !.depth = @ + 1]
           [] Taken(de).t = "End" ->
                 [de EXCEPT !.pos = @ + 1, !.pk = 0, !.depth = @ - 1]
           [] OTHER -> [de EXCEPT !.pos = @ + 1, !.pk = 0]

set_map_value(de) == [de EXCEPT !.is_map_value = TRUE]

unset_map_value(de) == [de EXCEPT !.is_map_value = FALSE]

(* An end of element that takes any event for it. *)
ExpectAnyEvent(de, old_name) == next(de)

expect_end_element(de, old_name) ==
    LET e == Taken(de)
        d1 == next(de)
    IN  IF Failed(d1) THEN d1
        ELSE IF e.t = "End" /\ e.name = old_name THEN d1
        ELSE Fail(d1, "ExpectedElement")

(* The deserializer the closure of read_inner_value runs on: past the      *)
(* start of the pending element when "is map value" is set.                *)
InnerDe(de) == IF de.is_map_value THEN next(unset_map_value(de)) ELSE de

(* The attributes read_inner_value_attrs hands to its closure. *)
InnerAttrs(de) ==
    IF de.is_map_value /\ Taken(de).t = "Start" THEN Taken(de).attrs ELSE <<>>

(* A wrapped read that asks for no end of element after the body. *)
ReadInnerValueOpen(de, r) ==
    IF de.is_map_value
    THEN IF Failed(InnerDe(de)) THEN Res(InnerDe(de), Nil)
         ELSE IF Taken(de).t # "Start" THEN Res(Fail(InnerDe(de), "ExpectedElement"), Nil)
         ELSE r
    ELSE r

(* read_inner_value, r being what its closure returns on InnerDe(de). *)
read_inner_value(de, r) ==
    IF de.is_map_value
    THEN IF Failed(InnerDe(de)) THEN Res(InnerDe(de), Nil)
         ELSE IF Taken(de).t # "Start" THEN Res(Fail(InnerDe(de), "ExpectedElement"), Nil)
         ELSE IF Failed(r.de) THEN r
         ELSE Res(expect_end_element(r.de, Taken(de).name), r.val)
    ELSE r

(* read_inner_value_attrs, r being what its closure returns on InnerDe(de) *)
(* and InnerAttrs(de).                                                     *)
read_inner_value_attrs(de, r) ==
    IF de.is_map_value
    THEN IF Failed(InnerDe(de)) THEN Res(InnerDe(de), Nil)
         ELSE IF Taken(de).t # "Start" THEN Res(Fail(InnerDe(de), "ExpectedElement"), Nil)
         ELSE IF Failed(r.de) THEN r
         ELSE Res(expect_end_element(r.de, Taken(de).name), r.val)
    ELSE r

(* XmlEvent::as_writer_event for the events of an element. *)
as_writer_event(e) ==
    CASE e.t = "Start" -> WStart(QName(e.name), e.attrs, e.ns)
      [] e.t = "End" -> [t |-> "end", name |-> Some(QName(e.name))]
      [] e.t = "Chars" -> WChars(e.s)
      [] e.t = "CData" -> WCData(e.s)

(* parse_string's loop over the events of a nested element: every event up *)
(* to the one that brings the depth back is written to the capture.        *)
RECURSIVE CaptureLoopToWrapperEnd(_, _, _)
CaptureLoopToWrapperEnd(de, depth, es) ==
    LET e == Taken(de)
        d1 == next(de)
        last == d1.depth = depth /\ EventAt(d1, d1.pos).t = "End"
    IN  IF Failed(d1) \/ last THEN [de |-> d1, es |-> es]
        ELSE CaptureLoopToWrapperEnd(d1, depth,
                IF e.t \in {"Start", "End", "Chars", "CData"} /\ d1.depth # depth
                THEN EmitEvent(CaptureConfig, es, as_writer_event(e)) ELSE es)

RECURSIVE CaptureLoop(_, _, _)
CaptureLoop(de, depth, es) ==
    LET e == Taken(de)
        d1 == next(de)
    IN  IF Failed(d1) \/ d1.depth = depth THEN [de |-> d1, es |-> es]
        ELSE CaptureLoop(d1, depth,
                IF e.t \in {"Start", "End", "Chars", "CData"}
                THEN EmitEvent(CaptureConfig, es, as_writer_event(e)) ELSE es)

(* The end of a capture: the text written, once the loop is over and the   *)
(* end tag is written.                                                     *)
CaptureResult(de, es) ==
    IF Failed(de) THEN Res(de, Nil)
    ELSE IF es.err THEN Res(Fail(de, "Panic"), Nil)
    ELSE Res(de, es.out)

CaptureEnd(e, loop) ==
    CaptureResult(loop.de,
        EmitEvent(CaptureConfig, loop.es, [t |-> "end", name |-> Some(QName(e.name))]))

(* The match of parse_string on the event e, d1 being the deserializer     *)
(* past it.                                                                *)
ParseStringMatch(e, d1) ==
    IF Failed(d1) THEN Res(d1, Nil)
    ELSE IF e.t \in {"CData", "Chars"} THEN Res(d1, e.s)
    ELSE IF e.t = "Start"
    THEN CaptureEnd(e, CaptureLoop(d1, d1.depth - 1,
                        EmitEvent(CaptureConfig, EmitterInit, as_writer_event(e))))
    ELSE Res(Fail(d1, "ExpectedString"), Nil)

(* The closure of parse_string: text, or the capture of a nested element. *)
ParseStringInner(de) == ParseStringMatch(Taken(de), next(de))

parse_string(de) == read_inner_value(de, ParseStringInner(InnerDe(de)))

(* str::to_lowercase on the letters the model's strings hold. *)
LowerChar(c) ==
    CASE c = "T" -> "t" [] c = "R" -> "r" [] c = "U" -> "u" [] c = "E" -> "e"
      [] c = "F" -> "f" [] c = "A" -> "a" [] c = "L" -> "l" [] c = "S" -> "s"
      [] c = "Y" -> "y" [] c = "N" -> "n" [] OTHER -> c

to_lowercase(s) ==
    [i \in 1..Len(s) |-> IF s[i].k = "c" THEN Ch(LowerChar(s[i].c)) ELSE s[i]]

(* The match of parse_bool and of AttrValueDeserializer::deserialize_bool. *)
BoolOf(s) ==
    IF to_lowercase(s) \in {TrueStr, S(<<"1">>), S(<<"y">>)} THEN Some(TRUE)
    ELSE IF to_lowercase(s) \in {FalseStr, S(<<"0">>), S(<<"n">>)} THEN Some(FALSE)
    ELSE [some |-> FALSE, v |-> FALSE]

BoolResult(r) ==
    IF Failed(r.de) THEN r
    ELSE IF BoolOf(r.val).some THEN Res(r.de, VBool(BoolOf(r.val).v))
    ELSE Res(Fail(r.de, "ExpectedBool"), Nil)

parse_bool(de) == BoolResult(parse_string(de))

I8Min == -128
I8Max == 127

DigitOf(x) ==
    IF x.k = "c" /\ \E d \in 1..10 : Digits[d] = x.c
    THEN (CHOOSE d \in 1..10 : Digits[d] = x.c) - 1
    ELSE -1

RECURSIVE DigitsValue(_)
DigitsValue(s) ==
    IF s = <<>> THEN 0
    ELSE 10 * DigitsValue(SubSeq(s, 1, Len(s) - 1)) + DigitOf(s[Len(s)])

(* str::parse::<i8>: an optional sign and decimal digits, within range. *)
FromStrI8(s) ==
    LET signed == s # <<>> /\ s[1] \in {Ch("-"), Ch("+")}
        body == IF signed THEN Tail(s) ELSE s
        n == IF s[1] = Ch("-") THEN 0 - DigitsValue(body) ELSE DigitsValue(body)
    IN  IF body = <<>> \/ Len(body) > 6 \/ \E i \in 1..Len(body) : DigitOf(body[i]) < 0
        THEN [some |-> FALSE, v |-> 0]
        ELSE IF n \in I8Min..I8Max THEN Some(n) ELSE [some |-> FALSE, v |-> 0]

IntResult(r) ==
    IF Failed(r.de) THEN r
    ELSE IF FromStrI8(r.val).some THEN Res(r.de, VInt(FromStrI8(r.val).v))
    ELSE Res(Fail(r.de, "ExpectedInt"), Nil)

parse_int(de) == IntResult(parse_string(de))

U8Max == 255

AllDigits(s) == s # <<>> /\ \A i \in 1..Len(s) : DigitOf(s[i]) >= 0

(* str::parse::<u8>: an optional + and decimal digits, within range. *)
FromStrU8(s) ==
    LET body == IF s # <<>> /\ s[1] = Ch("+") THEN Tail(s) ELSE s
    IN  IF AllDigits(body) /\ Len(body) <= 6 /\ DigitsValue(body) <= U8Max
        THEN Some(DigitsValue(body)) ELSE [some |-> FALSE, v |-> 0]

(* str::parse::<u64>: an optional + and decimal digits; texts of up to 6   *)
(* digits are all within range.                                            *)
FromStrU64(s) ==
    LET body == IF s # <<>> /\ s[1] = Ch("+") THEN Tail(s) ELSE s
    IN  IF AllDigits(body) /\ Len(body) <= 6
        THEN Some(DigitsValue(body)) ELSE [some |-> FALSE, v |-> 0]

(* parse_int::<u8> and visit_u8 on the text read as r. *)
U8Result(r) ==
    IF Failed(r.de) THEN r
    ELSE IF FromStrU8(r.val).some THEN Res(r.de, VInt(FromStrU8(r.val).v))
    ELSE Res(Fail(r.de, "ExpectedInt"), Nil)

(* parse_int::<u64> and visit_u64 on the text read as r. *)
U64Result(r) ==
    IF Failed(r.de) THEN r
    ELSE IF FromStrU64(r.val).some THEN Res(r.de, VInt(FromStrU64(r.val).v))
    ELSE Res(Fail(r.de, "ExpectedInt"), Nil)

(* deserialize_f32 and deserialize_f64: visit_u64 of parse_int, the        *)
(* float's visitor taking the u64 as a float.                              *)
FloatResult(r) ==
    IF Failed(r.de) THEN r
    ELSE IF FromStrU64(r.val).some THEN Res(r.de, VFloat(FromStrU64(r.val).v, 0))
    ELSE Res(Fail(r.de, "ExpectedInt"), Nil)

(* Field::from and Fields::from *)
FieldFrom(from) ==
    LET attr == StartsWith(from, AttrSentinel)
        name == IF attr THEN SubSeq(from, Len(AttrSentinel) + 1, Len(from)) ELSE from
    IN  [ok |-> LibCaptures(name).ok, namespace |-> LibCaptures(name).n,
         local_name |-> LibCaptures(name).e, name |-> name, attr |-> attr]

FieldsFrom(from) ==
    [fields |-> [i \in 1..Len(from) |-> FieldFrom(from[i])],
     inner_value |-> \E i \in 1..Len(from) : from[i] = ValueSentinel]

(* format!("{{{}}}{}", n, local_name), or the local name alone *)
NameStr(name) ==
    IF name.ns.some THEN S(<<"{">>) \o name.ns.v \o S(<<"}">>) \o name.local
    ELSE name.local

(* A matcher that looks at the local name only. *)
MatchFieldByLocalName(fields, name) ==
    LET hits == {i \in 1..Len(fields.fields) :
                    fields.fields[i].local_name = name.local /\ ~fields.fields[i].attr}
    IN  IF hits # {} THEN fields.fields[Min(hits)].name
        ELSE IF fields.inner_value THEN ValueSentinel
        ELSE NameStr(name)

(* A matcher that takes attribute fields for elements as well. *)
MatchFieldWithAttrs(fields, name) ==
    LET hits == {i \in 1..Len(fields.fields) :
                    /\ fields.fields[i].local_name = name.local
                    /\ fields.fields[i].namespace = name.ns}
    IN  IF hits # {} THEN fields.fields[Min(hits)].name
        ELSE IF fields.inner_value THEN ValueSentinel
        ELSE NameStr(name)

match_field(fields, name) ==
    LET hits == {i \in 1..Len(fields.fields) :
                    /\ fields.fields[i].local_name = name.local
                    /\ fields.fields[i].namespace = name.ns
                    /\ ~fields.fields[i].attr}
    IN  IF hits # {} THEN fields.fields[Min(hits)].name
        ELSE IF fields.inner_value THEN ValueSentinel
        ELSE NameStr(name)

match_attr(fields, name) ==
    LET hits == {i \in 1..Len(fields.fields) :
                    /\ fields.fields[i].local_name = name.local
                    /\ fields.fields[i].namespace = name.ns
                    /\ fields.fields[i].attr}
    IN  IF hits # {} THEN AttrSentinel \o fields.fields[Min(hits)].name
        ELSE AttrSentinel \o NameStr(name)

KeysOf(fields) == [i \in 1..Len(fields) |-> fields[i].key]

TagsOf(variants) == [i \in 1..Len(variants) |-> variants[i].tag]

(* AttrValueDeserializer: a value of the type from an attribute's text.    *)
RECURSIVE DeserializeAttr(_, _)
DeserializeAttr(ty, s) ==
    CASE ty.k = "String" -> [err |-> "", val |-> VStr(s)]
      [] ty.k = "i8" ->
            IF FromStrI8(s).some THEN [err |-> "", val |-> VInt(FromStrI8(s).v)]
            ELSE [err |-> "ExpectedInt", val |-> Nil]
      [] ty.k = "bool" ->
            IF BoolOf(s).some THEN [err |-> "", val |-> VBool(BoolOf(s).v)]
            ELSE [err |-> "ExpectedBool", val |-> Nil]
      [] ty.k = "Option" ->
            LET r == DeserializeAttr(ty.of, s)
            IN  [err |-> r.err, val |-> VSome(r.val)]
      [] ty.k = "enum" ->
            LET hits == {i \in 1..Len(ty.variants) : ty.variants[i].tag = s}
            IN  IF hits # {} /\ ty.variants[Min(hits)].kind = "unit"
                THEN [err |-> "", val |-> VUnitVariant(s)]
                ELSE [err |-> "Custom", val |-> Nil]
      [] ty.k = "IgnoredAny" -> [err |-> "", val |-> Nil]
      [] OTHER -> [err |-> "Custom", val |-> Nil]

(* Map::new *)
MapNew(de, attrs, fields) ==
    [de |-> IF \E i \in 1..Len(fields) : ~FieldFrom(fields[i]).ok
            THEN Fail(de, "Panic") ELSE de,
     attrs |-> attrs, fields |-> FieldsFrom(fields), next_value |-> None,
     inner_value |-> TRUE]

next_key_seed(map) ==
    IF map.attrs # <<>>
    THEN [map |-> [map EXCEPT !.attrs = SubSeq(@, 1, Len(@) - 1),
                              !.next_value = Some(map.attrs[Len(map.attrs)].value)],
          key |-> Some(match_attr(map.fields, map.attrs[Len(map.attrs)].name))]
    ELSE LET e == Peeked(map.de)
             d1 == peek(map.de)
         IN  IF Failed(d1) THEN [map |-> [map EXCEPT !.de = d1], key |-> None]
             ELSE IF e.t = "Start"
             THEN [map |-> [map EXCEPT
                              !.de = reset_peek(d1),
                              !.inner_value = (match_field(map.fields, e.name) = ValueSentinel)],
                   key |-> Some(match_field(map.fields, e.name))]
             ELSE IF e.t \in {"Chars", "CData"}
             THEN [map |-> [map EXCEPT !.de = reset_peek(d1)], key |-> Some(ValueSentinel)]
             ELSE [map |-> [map EXCEPT !.de = reset_peek(d1)], key |-> None]

RECURSIVE Deserialize(_, _)

(* What next_value_seed returns for an attribute's text read as r. *)
AttrValueResult(map, r) ==
    [map |-> [map EXCEPT !.next_value = None,
                         !.de = IF r.err = "" THEN @ ELSE Fail(@, r.err)],
     val |-> r.val]

(* ... and for an element read as r. *)
ElementValueResult(map, r) ==
    [map |-> [map EXCEPT !.inner_value = FALSE, !.de = r.de], val |-> r.val]

(* The deserializer next_value_seed hands to the seed of an element's or   *)
(* a text's value.                                                         *)
ValueDe(map) == IF map.inner_value THEN map.de ELSE set_map_value(map.de)

next_value_seed(ty, map) ==
    IF map.next_value.some
    THEN AttrValueResult(map, DeserializeAttr(ty, map.next_value.v))
    ELSE ElementValueResult(map, Deserialize(ty, ValueDe(map)))

(* A field the document did not give: an Option is absent, a field with a  *)
(* default takes it, any other is an error.                                *)
DefaultOf(ty) ==
    CASE ty.k = "String" -> VStr(<<>>)
      [] ty.k = "i8" -> VInt(0)
      [] ty.k = "bool" -> VBool(FALSE)
      [] ty.k = "Option" -> VNone
      [] ty.k = "Vec" -> VSeq(<<>>)
      [] OTHER -> Nil

Missing(fields, got) ==
    {i \in 1..Len(fields) : ~got[i].some /\ ~fields[i].dflt /\ fields[i].ty.k # "Option"}

Collected(fields, got) ==
    [i \in 1..Len(fields) |->
        FV(fields[i].key, IF got[i].some THEN got[i].v
                          ELSE IF fields[i].dflt THEN DefaultOf(fields[i].ty)
                          ELSE VNone)]

(* The derived visit_map of a record: keys until there is none, each value *)
(* into its field, unknown keys ignored, no field twice.                   *)
RECURSIVE StructVisitMap(_, _, _)

(* The field a key names; 0 when it names none. *)
FieldIndex(fields, key) ==
    LET hits == {i \in 1..Len(fields) : fields[i].key = key}
    IN  IF hits = {} THEN 0 ELSE Min(hits)

(* After next_value_seed returned r for the field i (0: the value of an    *)
(* unknown key, ignored).                                                  *)
VisitValue(fields, got, i, r) ==
    IF Failed(r.map.de) THEN Res(r.map.de, Nil)
    ELSE StructVisitMap(fields, r.map,
                        IF i = 0 THEN got ELSE [got EXCEPT ![i] = Some(r.val)])

(* After next_key_seed returned k. *)
VisitKey(fields, got, k) ==
    IF Failed(k.map.de) THEN Res(k.map.de, Nil)
    ELSE IF ~k.key.some
    THEN IF Missing(fields, got) # {} THEN Res(Fail(k.map.de, "Custom"), Nil)
         ELSE Res(k.map.de, Collected(fields, got))
    ELSE IF FieldIndex(fields, k.key.v) # 0 /\ got[FieldIndex(fields, k.key.v)].some
    THEN Res(Fail(k.map.de, "Custom"), Nil)
    ELSE VisitValue(fields, got, FieldIndex(fields, k.key.v),
                    next_value_seed(IF FieldIndex(fields, k.key.v) = 0 THEN TIgnoredAny
                                    ELSE fields[FieldIndex(fields, k.key.v)].ty,
                                    k.map))

StructVisitMap(fields, map, got) == VisitKey(fields, got, next_key_seed(map))

VisitMap(fields, de, attrs) ==
    StructVisitMap(fields, MapNew(de, attrs, KeysOf(fields)),
                   [i \in 1..Len(fields) |-> None])

(* deserialize_struct: the fields of the record, in declaration order. *)
deserialize_struct(fields, de) ==
    read_inner_value_attrs(de, VisitMap(fields, InnerDe(de), InnerAttrs(de)))

(* Seq::new *)
SeqNew(de) ==
    IF de.is_map_value
    THEN LET e == Peeked(de)
             d1 == peek(unset_map_value(de))
         IN  IF Failed(d1) THEN [de |-> d1, expected_name |-> None]
             ELSE IF e.t = "Start"
             THEN [de |-> reset_peek(d1), expected_name |-> Some(e.name)]
             ELSE [de |-> Fail(d1, "ExpectedElement"), expected_name |-> None]
    ELSE [de |-> de, expected_name |-> None]

(* A run that goes on while the local name stays the same. *)
MoreByLocalName(e, expected_name) ==
    IF expected_name.some THEN e.t = "Start" /\ e.name.local = expected_name.v.local
    ELSE e.t \notin {"End", "EndDocument"}

(* Whether next_element_seed finds one more member at the peeked event. *)
More(e, expected_name) ==
    IF expected_name.some THEN e.t = "Start" /\ e.name = expected_name.v
    ELSE e.t \notin {"End", "EndDocument"}

MemberResult(seq, r) == [seq |-> [seq EXCEPT !.de = r.de], val |-> Some(r.val)]

next_element_seed(ty, seq) ==
    LET e == Peeked(seq.de)
        d1 == peek(seq.de)
    IN  IF Failed(d1) THEN [seq |-> [seq EXCEPT !.de = d1], val |-> None]
        ELSE IF More(e, seq.expected_name)
        THEN MemberResult(seq, Deserialize(ty, IF seq.expected_name.some
                                               THEN set_map_value(reset_peek(d1))
                                               ELSE reset_peek(d1)))
        ELSE [seq |-> [seq EXCEPT !.de = reset_peek(d1)], val |-> None]

(* The visit_seq of Vec: members until there is none. *)
RECURSIVE VecVisitSeq(_, _, _)

VecMember(ty, acc, r) ==
    IF Failed(r.seq.de) THEN Res(r.seq.de, Nil)
    ELSE IF r.val.some THEN VecVisitSeq(ty, r.seq, Append(acc, r.val.v))
    ELSE Res(r.seq.de, acc)

VecVisitSeq(ty, seq, acc) == VecMember(ty, acc, next_element_seed(ty, seq))

(* The derived visit_seq of a tuple variant: one member per position. *)
RECURSIVE TupleVisitSeq(_, _, _)

TupleMember(tys, acc, r) ==
    IF Failed(r.seq.de) THEN Res(r.seq.de, Nil)
    ELSE IF r.val.some THEN TupleVisitSeq(tys, r.seq, Append(acc, r.val.v))
    ELSE Res(Fail(r.seq.de, "Custom"), Nil)

TupleVisitSeq(tys, seq, acc) ==
    IF Len(acc) = Len(tys) THEN Res(seq.de, acc)
    ELSE TupleMember(tys, acc, next_element_seed(tys[Len(acc) + 1], seq))

deserialize_seq(ty, de) ==
    IF Failed(SeqNew(de).de) THEN Res(SeqNew(de).de, Nil)
    ELSE VecVisitSeq(ty, SeqNew(de), <<>>)

deserialize_tuple(tys, de) ==
    IF Failed(SeqNew(de).de) THEN Res(SeqNew(de).de, Nil)
    ELSE TupleVisitSeq(tys, SeqNew(de), <<>>)

SomeResult(r) == Res(r.de, VSome(r.val))

visit_some(ty, de) == SomeResult(Deserialize(ty, de))

(* An option that takes whatever comes as present. *)
OptionAlwaysPresent(ty, de) == visit_some(ty, de)

deserialize_option(ty, de) ==
    LET first == Peeked(de)
        d1 == IF de.is_map_value THEN peek(de) ELSE de
        by_attributes == de.is_map_value /\ first.t = "Start" /\ first.attrs # <<>>
        second == Peeked(d1)
        d2 == peek(d1)
    IN  IF Failed(d1) THEN Res(d1, Nil)
        ELSE IF ~by_attributes /\ Failed(d2) THEN Res(d2, Nil)
        ELSE IF ~by_attributes /\ second.t = "End"
        THEN Res(next(IF d2.is_map_value THEN next(unset_map_value(d2)) ELSE d2), VNone)
        ELSE visit_some(ty, reset_peek(IF by_attributes THEN d1 ELSE d2))

(* A skip that takes one event only. *)
IgnoreOneEvent(de, depth) == next(de)

(* deserialize_unit: the unit, and no event read. *)
deserialize_unit(de) == Res(de, VUnit)

RECURSIVE IgnoreLoop(_, _)
IgnoreLoop(de, depth) ==
    LET d1 == next(de)
    IN  IF Failed(d1) \/ d1.depth = depth THEN d1 ELSE IgnoreLoop(d1, depth)

deserialize_ignored_any(de) == Res(IgnoreLoop(de, de.depth), Nil)

(* A variant_seed that takes any event for a name: the first variant for   *)
(* an event that is neither a start nor a text.                            *)
VariantSeedAnyEvent(variants, de) ==
    LET e == Peeked(de)
        d1 == peek(de)
        name_str == IF e.t = "Start" THEN match_field(FieldsFrom(TagsOf(variants)), e.name)
                    ELSE IF e.t \in {"Chars", "CData"} THEN e.s
                    ELSE variants[1].tag
        hits == {i \in 1..Len(variants) : variants[i].tag = name_str}
    IN  IF Failed(d1) THEN [de |-> d1, variant |-> 0]
        ELSE IF hits = {}
        THEN [de |-> Fail(IF e.t = "Start" THEN set_map_value(d1) ELSE d1, "Custom"),
              variant |-> 0]
        ELSE [de |-> reset_peek(IF e.t = "Start" THEN set_map_value(d1) ELSE d1),
              variant |-> Min(hits)]

(* Enum::variant_seed: the variant the peeked event names. *)
variant_seed(variants, de) ==
    LET e == Peeked(de)
        d1 == peek(de)
        name_str == IF e.t = "Start" THEN match_field(FieldsFrom(TagsOf(variants)), e.name)
                    ELSE e.s
        hits == {i \in 1..Len(variants) : variants[i].tag = name_str}
    IN  IF Failed(d1) THEN [de |-> d1, variant |-> 0]
        ELSE IF e.t \notin {"Start", "Chars", "CData"}
        THEN [de |-> Fail(d1, "ExpectedString"), variant |-> 0]
        ELSE IF hits = {}
        THEN [de |-> Fail(IF e.t = "Start" THEN set_map_value(d1) ELSE d1, "Custom"),
              variant |-> 0]
        ELSE [de |-> reset_peek(IF e.t = "Start" THEN set_map_value(d1) ELSE d1),
              variant |-> Min(hits)]

unit_variant(de) ==
    LET e == Taken(de)
        d1 == next(unset_map_value(de))
    IN  IF Failed(d1) THEN d1
        ELSE IF e.t = "Start"
        THEN IF e.attrs = <<>> THEN expect_end_element(d1, e.name)
             ELSE Fail(d1, "ExpectedElement")
        ELSE IF e.t \in {"Chars", "CData"} THEN d1
        ELSE Fail(d1, "Panic")

NewtypeResult(tag, r) == Res(r.de, VNewtypeVariant(tag, r.val))

TupleResult(tag, r) == Res(r.de, VTupleVariant(tag, r.val))

StructVariantResult(tag, r) == Res(r.de, VStructVariant(tag, r.val))

(* The content of the variant the seed chose, by its kind. *)
VisitVariant(variants, seed) ==
    IF Failed(seed.de) THEN Res(seed.de, Nil)
    ELSE CASE variants[seed.variant].kind = "unit" ->
                 Res(unit_variant(seed.de), VUnitVariant(variants[seed.variant].tag))
           [] variants[seed.variant].kind = "newtype" ->
                 NewtypeResult(variants[seed.variant].tag,
                               Deserialize(variants[seed.variant].ty, seed.de))
           [] variants[seed.variant].kind = "tuple" ->
                 TupleResult(variants[seed.variant].tag,
                             deserialize_tuple(variants[seed.variant].tys, seed.de))
           [] variants[seed.variant].kind = "struct" ->
                 StructVariantResult(variants[seed.variant].tag,
                             deserialize_struct(variants[seed.variant].fields, seed.de))

(* The derived visit_enum: the variant, then its content by its kind. *)
VisitEnum(variants, de) == VisitVariant(variants, variant_seed(variants, de))

deserialize_enum(variants, de) ==
    read_inner_value(de, VisitEnum(variants, InnerDe(de)))

StringResult(r) == Res(r.de, IF Failed(r.de) THEN Nil ELSE VStr(r.val))

SeqResult(r) == Res(r.de, IF Failed(r.de) THEN Nil ELSE VSeq(r.val))

StructResult(r) == Res(r.de, IF Failed(r.de) THEN Nil ELSE VStruct(r.val))

(* T::deserialize(&mut deserializer) for a value of the shape ty. *)
Deserialize(ty, de) ==
    IF Failed(de) THEN Res(de, Nil)
    ELSE CASE ty.k = "String" -> StringResult(parse_string(de))
           [] ty.k = "i8" -> parse_int(de)
           [] ty.k \in {"u8", "u64", "f64"} ->
                 LET r == parse_string(de)
                 IN  IF ty.k = "u8" THEN U8Result(r)
                     ELSE IF ty.k = "u64" THEN U64Result(r)
                     ELSE FloatResult(r)
           [] ty.k = "bool" -> parse_bool(de)
           [] ty.k = "Option" -> deserialize_option(ty.of, de)
           [] ty.k = "Vec" -> SeqResult(deserialize_seq(ty.of, de))
           [] ty.k = "struct" -> StructResult(deserialize_struct(ty.fields, de))
           [] ty.k = "enum" -> deserialize_enum(ty.variants, de)
           [] ty.k = "IgnoredAny" -> deserialize_ignored_any(de)
           [] ty.k = "unit" -> deserialize_unit(de)

(* What a decode returned, and the state it left the deserializer in. *)
Outcome(r) ==
    [ok |-> ~Failed(r.de), val |-> IF Failed(r.de) THEN Nil ELSE r.val,
     err |-> r.de.err,
     de |-> [pos |-> r.de.pos, pk |-> r.de.pk, depth |-> r.de.depth,
             is_map_value |-> r.de.is_map_value]]

(* from_str: the document's events after StartDocument, into the shape.    *)
from_str(ty, s) == Outcome(Deserialize(ty, Deserializer(ReadEvents(s))))

---------------------------------------------------------------------------
(* Encoding: the values to_string_custom is checked on.                    *)

MaxSeqLen == 3

NsU == S(<<"u", ":", "a">>)
NsW == S(<<"w">>)
PrefixP == S(<<"p">>)

(* The declared name {n}p:e. *)
Declared(n, p, e) == FormatTag([n |-> n, l |-> None, p |-> p, e |-> e])

(* The namespace and prefix a declared name may carry. *)
Quals ==
    {[n |-> None, p |-> None], [n |-> Some(NsU), p |-> None],
     [n |-> Some(NsU), p |-> Some(PrefixP)], [n |-> Some(NsW), p |-> None],
     [n |-> Some(NsW), p |-> Some(PrefixP)]}

Qualified(q, e) == Declared(q.n, q.p, S(<<e>>))

(* The name an element of that declaration is written with. *)
Written(q, e) == IF q.p.some THEN q.p.v \o Colon \o S(<<e>>) ELSE S(<<e>>)

Injective(fs) == \A i, j \in 1..Len(fs) : fs[i].key = fs[j].key => i = j

(* Records with attribute fields and plain fields, in every order. *)
RoutingPool ==
    {FV(AttrSentinel \o S(<<"a">>), VStr(S(<<"x">>))),
     FV(AttrSentinel \o S(<<"n">>), VInt(7)),
     FV(S(<<"c">>), VStr(S(<<"y">>))),
     FV(S(<<"d">>), VInt(3))}

RoutingRecords ==
    {fs \in SeqsUpTo(RoutingPool, 2, 3) :
        /\ Injective(fs)
        /\ \E i \in 1..Len(fs) : IsAttrKey(fs[i].key)
        /\ \E i \in 1..Len(fs) : ~IsAttrKey(fs[i].key)}

Places == {"node", "seq", "newtype", "struct_variant", "inline", "inline_seq"}

VariantTag == S(<<"v">>)

(* The record fs placed under the element h of a root record. *)
Placed(place, fs) ==
    CASE place = "node" -> VStruct(fs)
      [] place = "seq" -> VSeq(<<VStruct(fs), VStruct(fs)>>)
      [] place = "newtype" -> VNewtypeVariant(VariantTag, VStruct(fs))
      [] place = "struct_variant" -> VStructVariant(VariantTag, fs)
      [] place = "inline" -> VStruct(<<FV(ValueSentinel, VStruct(fs))>>)
      [] place = "inline_seq" -> VStruct(<<FV(ValueSentinel, VSeq(<<VStruct(fs)>>))>>)

RoutingInputs ==
    {[fam |-> "routing", include |-> TRUE, place |-> place, rec |-> fs,
      host |-> IF place \in {"newtype", "struct_variant"} THEN VariantTag
               ELSE Written(q, "h"),
      v |-> VStruct(<<FV(Qualified(q, "h"), Placed(place, fs))>>)] :
        place \in Places, fs \in RoutingRecords,
        q \in {qq \in Quals : qq.n # Some(NsW)}}

(* A record with a repeated field between other fields. *)
Members == {VStr(S(<<"x">>)), VStr(<<>>), VInt(-1)}

Around == {<<>>, <<FV(S(<<"b">>), VStr(S(<<"z">>)))>>}

After == {<<>>, <<FV(S(<<"e">>), VInt(0))>>}

SeqInputs ==
    {[fam |-> "seq", include |-> TRUE, q |-> q, members |-> ms, pre |-> pre,
      post |-> post,
      v |-> VStruct(<<FV(S(<<"r">>),
                VStruct(pre \o <<FV(Qualified(q, "t"), VSeq(ms))>> \o post))>>)] :
        q \in {qq \in Quals : qq.n # Some(NsW)},
        ms \in SeqsUpTo(Members, 0, MaxSeqLen), pre \in Around, post \in After}

(* Namespaces on nested and on sibling elements: r holds a and b, a may    *)
(* hold c.                                                                 *)
NsInputs ==
    {[fam |-> "ns", include |-> include, qr |-> qr, qa |-> qa, qb |-> qb, qc |-> qc,
      v |-> VStruct(<<FV(Qualified(qr, "r"),
                VStruct(<<FV(Qualified(qa, "a"),
                              IF qc.some
                              THEN VStruct(<<FV(Qualified(qc.v, "c"), VStr(S(<<"x">>)))>>)
                              ELSE VStr(S(<<"x">>))),
                          FV(Qualified(qb, "b"), VStr(S(<<"y">>)))>>))>>)] :
        include \in BOOLEAN, qr \in Quals, qa \in Quals, qb \in Quals,
        qc \in {None} \cup {Some(q) : q \in Quals}}

SerInputs == RoutingInputs \cup SeqInputs \cup NsInputs

SerInit == pc = "ser" /\ inp \in SerInputs /\ out = NoOut

(* to_string_custom on the value. *)
Encode ==
    /\ pc = "ser"
    /\ pc' = "encoded"
    /\ out' = to_string_custom(inp.v, inp.include)
    /\ UNCHANGED inp

SerNext == Encode

SpecSer == SerInit /\ [][SerNext]_vars

(* The elements of a document in document order, each with the index of    *)
(* its parent (0 at the top), the names of its open ancestors and its own  *)
(* character content.                                                      *)
RECURSIVE Walk(_, _, _, _)
Walk(doc, i, els, stack) ==
    IF i > Len(doc) THEN els
    ELSE LET x == doc[i]
             top == IF stack = <<>> THEN 0 ELSE stack[Len(stack)]
         IN  IF x.k = "m" /\ x.tok.t \in {"open", "empty"}
             THEN Walk(doc, i + 1,
                       Append(els, [name |-> x.tok.name, attrs |-> x.tok.attrs,
                                    ns |-> x.tok.ns, parent |-> top,
                                    up |-> stack, text |-> <<>>]),
                       IF x.tok.t = "open" THEN Append(stack, Len(els) + 1) ELSE stack)
             ELSE IF x.k = "m" /\ x.tok.t = "close"
             THEN Walk(doc, i + 1, els, SubSeq(stack, 1, Len(stack) - 1))
             ELSE IF x.k = "m" \/ top = 0
             THEN Walk(doc, i + 1, els, stack)
             ELSE Walk(doc, i + 1, [els EXCEPT ![top].text = Append(@, x)], stack)

Elements(doc) == Walk(doc, 1, <<>>, <<>>)

(* The indices of the children of element i. *)
ChildrenOf(els, i) == {j \in 1..Len(els) : els[j].parent = i}

HasAttr(e, name) == \E i \in 1..Len(e.attrs) : e.attrs[i].name = name

AttrValue(e, name) == e.attrs[CHOOSE i \in 1..Len(e.attrs) : e.attrs[i].name = name].value

---------------------------------------------------------------------------
(* Attribute and element routing on encode.                                *)

AttrFieldsOf(fs) == {i \in 1..Len(fs) : IsAttrKey(fs[i].key)}

PlainFieldsOf(fs) == {i \in 1..Len(fs) : ~IsAttrKey(fs[i].key)}

(* The attribute name of the key $attr:X. *)
AttrLocal(key) == SubSeq(key, Len(AttrSentinel) + 1, Len(key))

(* The elements that enclose the placed record. *)
RoutingHosts(els) == {i \in 1..Len(els) : els[i].name = inp.host}

AttrOnHosts(els) ==
    /\ RoutingHosts(els) # {}
    /\ \A h \in RoutingHosts(els) : \A i \in AttrFieldsOf(inp.rec) :
          /\ HasAttr(els[h], AttrLocal(inp.rec[i].key))
          /\ AttrValue(els[h], AttrLocal(inp.rec[i].key)) = AsStr(Serialize(inp.rec[i].v))

AttrNeverChild(els) ==
    \A j \in 1..Len(els) : \A i \in AttrFieldsOf(inp.rec) :
        els[j].name # AttrLocal(inp.rec[i].key)

PlainIsChild(els) ==
    \A h \in RoutingHosts(els) : \A i \in PlainFieldsOf(inp.rec) :
        \E j \in ChildrenOf(els, h) :
            /\ els[j].name = inp.rec[i].key
            /\ els[j].text = AsStr(Serialize(inp.rec[i].v))

PlainNeverAttr(els) ==
    \A j \in 1..Len(els) : \A i \in PlainFieldsOf(inp.rec) :
        ~HasAttr(els[j], inp.rec[i].key)

(* C3: attribute vs element routing on encode.  For every record, a field  *)
(* declared $attr:X is emitted as an attribute named X on the record's     *)
(* enclosing element and never as a child element, and a field declared    *)
(* without the $attr: prefix is emitted as child content and never as an    *)
(* attribute.                                                              *)
C3_AttrRouting ==
    (pc = "encoded" /\ inp.fam = "routing") =>
        /\ out.ok
        /\ AttrOnHosts(Elements(out.text))
        /\ AttrNeverChild(Elements(out.text))
        /\ PlainIsChild(Elements(out.text))
        /\ PlainNeverAttr(Elements(out.text))

(* C3, for a record that is the node of its own element (the value of a    *)
(* tagged field, a member of a tagged sequence, the content of a variant): *)
(* the routing is as the claim says.                                       *)
C3_TaggedRecordRouting ==
    (pc = "encoded" /\ inp.fam = "routing"
        /\ inp.place \in {"node", "seq", "newtype", "struct_variant"}) =>
        /\ out.ok
        /\ AttrOnHosts(Elements(out.text))
        /\ AttrNeverChild(Elements(out.text))
        /\ PlainIsChild(Elements(out.text))
        /\ PlainNeverAttr(Elements(out.text))

(* C3, for every record: an attribute field never becomes a child element  *)
(* and a plain field never becomes an attribute.                          *)
C3_NeverCrossed ==
    (pc = "encoded" /\ inp.fam = "routing") =>
        /\ AttrNeverChild(Elements(out.text))
        /\ PlainIsChild(Elements(out.text))
        /\ PlainNeverAttr(Elements(out.text))

---------------------------------------------------------------------------
(* Sequence grouping on encode.                                            *)

SeqFieldCount == Len(inp.pre) + Len(inp.members) + Len(inp.post)

(* C6: sequence grouping on encode.  A record whose field tagged t holds a *)
(* sequence of k values is written as exactly k sibling elements named t   *)
(* under the record's element, in input order, each holding one member,    *)
(* with no element wrapping the group.                                     *)
C6_SequenceGroupingEncode ==
    (pc = "encoded" /\ inp.fam = "seq") =>
        LET els == Elements(out.text)
            base == 1 + Len(inp.pre)
        IN  /\ out.ok
            /\ Len(els) = 1 + SeqFieldCount
            /\ ChildrenOf(els, 1) = 2..(1 + SeqFieldCount)
            /\ {i \in 1..Len(els) : els[i].name = Written(inp.q, "t")}
                  = (base + 1)..(base + Len(inp.members))
            /\ \A m \in 1..Len(inp.members) :
                  els[base + m].text = AsStr(Serialize(inp.members[m]))

(* Three different members were written as three siblings. *)
C6_ThreeSiblingsWritten ==
    /\ pc = "encoded" /\ inp.fam = "seq"
    /\ Len(inp.members) = 3 /\ inp.members[1] # inp.members[2]
    /\ inp.members[2] # inp.members[3] /\ inp.pre # <<>> /\ inp.post # <<>>
    /\ Len(Elements(out.text)) = 6
    /\ Elements(out.text)[4].text = AsStr(Serialize(inp.members[2]))

---------------------------------------------------------------------------
(* Namespace declarations and schema locations on encode.                  *)

(* The elements r, a, c, b of the document with their declarations and the *)
(* declarations of their open ancestors.                                   *)
NsPlan ==
    <<[q |-> inp.qr, anc |-> <<>>], [q |-> inp.qa, anc |-> <<inp.qr>>]>>
    \o (IF inp.qc.some THEN <<[q |-> inp.qc.v, anc |-> <<inp.qr, inp.qa>>]>> ELSE <<>>)
    \o <<[q |-> inp.qb, anc |-> <<inp.qr>>]>>

BindingOf(q) == [prefix |-> IF q.p.some THEN q.p.v ELSE <<>>, uri |-> q.n.v]

(* The namespace is on the stack: an open ancestor declares it. *)
OnStack(e) == e.q.n.some /\ \E i \in 1..Len(e.anc) : e.anc[i].n = e.q.n

(* An open ancestor carries the very binding of prefix to namespace. *)
Carried(e) ==
    e.q.n.some /\ \E i \in 1..Len(e.anc) :
        e.anc[i].n.some /\ BindingOf(e.anc[i]) = BindingOf(e.q)

SchemaLocationName == XsiPrefix \o Colon \o SchemaLocation

HasSchemaLocation(el) == HasAttr(el, SchemaLocationName)

Declares(el, q) == q.n.some /\ BindingOf(q) \in el.ns

(* C10 (as the code has it): an element carries the schema-location        *)
(* attribute exactly when schema locations are enabled and its namespace   *)
(* is not on the namespace stack, that is, no open ancestor declares that  *)
(* namespace; it carries the namespace declaration exactly when no open    *)
(* ancestor carries the same binding of prefix to namespace.  Siblings do  *)
(* not see each other: each of two siblings declaring the same namespace   *)
(* under a parent without it carries both.                                 *)
C10_NamespaceEmission ==
    (pc = "encoded" /\ inp.fam = "ns") =>
        LET els == Elements(out.text)
        IN  /\ out.ok
            /\ Len(els) = Len(NsPlan)
            /\ \A i \in 1..Len(NsPlan) :
                  /\ HasSchemaLocation(els[i])
                        <=> (inp.include /\ NsPlan[i].q.n.some /\ ~OnStack(NsPlan[i]))
                  /\ HasSchemaLocation(els[i]) =>
                        AttrValue(els[i], SchemaLocationName)
                            = NsPlan[i].q.n.v \o Space
                                \o LastSegment(NsPlan[i].q.n.v) \o DotXsd
                  /\ Declares(els[i], NsPlan[i].q)
                        <=> (NsPlan[i].q.n.some /\ ~Carried(NsPlan[i]))

(* A nested element whose ancestor declares its namespace carries nothing, *)
(* and two siblings under a parent without the namespace both carry the    *)
(* declaration and the schema location.                                    *)
C10_NestedSilentSiblingsRepeat ==
    /\ pc = "encoded" /\ inp.fam = "ns" /\ inp.include
    /\ inp.qr.n = None /\ inp.qa.n = Some(NsU) /\ inp.qb = inp.qa /\ inp.qc = Some(inp.qa)
    /\ HasSchemaLocation(Elements(out.text)[2])
    /\ ~HasSchemaLocation(Elements(out.text)[3])
    /\ Elements(out.text)[3].ns = {}
    /\ HasSchemaLocation(Elements(out.text)[4])
    /\ Declares(Elements(out.text)[4], inp.qb)

(* C10, first part: of two sibling elements declaring the same namespace   *)
(* the second carries neither the declaration nor the schema location.     *)
C10_SiblingsNotRepeated ==
    (pc = "encoded" /\ inp.fam = "ns" /\ inp.qa.n.some /\ inp.qa.n = inp.qb.n) =>
        LET b == Elements(out.text)[Len(NsPlan)]
        IN  ~HasSchemaLocation(b) /\ ~Declares(b, inp.qb)

(* C10, second part: an element carries them only if its namespace is not  *)
(* on the namespace stack.                                                 *)
C10_OnlyIfNotOnStack ==
    (pc = "encoded" /\ inp.fam = "ns") =>
        \A i \in 1..Len(NsPlan) :
            (HasSchemaLocation(Elements(out.text)[i])
                \/ Declares(Elements(out.text)[i], NsPlan[i].q)) => ~OnStack(NsPlan[i])

(* C10: namespace dedup.  When two sibling elements that both declare the  *)
(* same namespace are encoded in the same namespace scope, the namespace   *)
(* declaration and the schema-location attribute are emitted only on the   *)
(* first and not repeated on the other; more generally an element emits    *)
(* them only if its namespace is not already on the namespace stack.       *)
C10_NamespaceDedup == C10_SiblingsNotRepeated /\ C10_OnlyIfNotOnStack

---------------------------------------------------------------------------
(* Decoding: the documents from_str is checked on.                         *)

MaxKids == 3

Binding(prefix, uri) == [prefix |-> prefix, uri |-> uri]

Attr(name, value) == [name |-> name, value |-> value]

OpenTag(name, attrs, ns) == Mk(Token("open", name, attrs, ns))

CloseTag(name) == Mk(CloseToken(name))

Element(name, attrs, ns, content) ==
    <<OpenTag(name, attrs, ns)>> \o content \o <<CloseTag(name)>>

EmptyElement(name, attrs, ns) == <<Mk(Token("empty", name, attrs, ns))>>

(* The bindings an element written for the declaration q carries. *)
BindingsOf(q) == IF q.n.some THEN {BindingOf(q)} ELSE {}

(* The root record around the record with the given fields, and the        *)
(* document around its content.                                            *)
RootOf(fields) == TStruct(<<FT(S(<<"r">>), TStruct(fields))>>)

DocOf(content) == <<Mk(DeclToken)>> \o Element(S(<<"r">>), <<>>, {}, content)

FieldB == FT(S(<<"b">>), TString)
FieldS == FT(S(<<"s">>), TString)
ElementB == Element(S(<<"b">>), <<>>, {}, S(<<"z">>))
ElementS == Element(S(<<"s">>), <<>>, {}, S(<<"x">>))

(* An optional field t between other fields. *)
OptInner == {TString, TI8, TBool, TStruct(<<FT(AttrSentinel \o S(<<"a">>), TString)>>)}

OptForms == {"empty", "pair", "space", "text"}

OptAttrs ==
    {<<>>, <<Attr(S(<<"a">>), S(<<"1">>))>>, <<Attr(S(<<"a">>), <<>>)>>,
     <<Attr(S(<<"a">>), S(<<"1">>)), Attr(S(<<"c">>), S(<<"2">>))>>}

OptElement(form, attrs) ==
    CASE form = "empty" -> EmptyElement(S(<<"t">>), attrs, {})
      [] form = "pair" -> Element(S(<<"t">>), attrs, {}, <<>>)
      [] form = "space" -> Element(S(<<"t">>), attrs, {}, S(<<" ">>))
      [] form = "text" -> Element(S(<<"t">>), attrs, {}, S(<<"1">>))

OptInputs ==
    {[fam |-> "opt", of |-> x, form |-> form, attrs |-> attrs, before |-> before,
      after |-> after, at |-> IF before THEN 6 ELSE 3, fty |-> TOption(x),
      ty |-> RootOf((IF before THEN <<FieldB>> ELSE <<>>)
                    \o <<FT(S(<<"t">>), TOption(x))>>
                    \o (IF after THEN <<FieldS>> ELSE <<>>)),
      doc |-> DocOf((IF before THEN ElementB ELSE <<>>) \o OptElement(form, attrs)
                    \o (IF after THEN ElementS ELSE <<>>))] :
        x \in OptInner, form \in OptForms, attrs \in OptAttrs,
        before \in BOOLEAN, after \in BOOLEAN}

(* A repeated field v in the namespace u:a among other elements. *)
Kid(name, q, text) ==
    [name |-> Name(S(<<name>>), q.n, q.p), text |-> text,
     doc |-> IF text.some THEN Element(Written(q, name), <<>>, BindingsOf(q), text.v)
             ELSE EmptyElement(Written(q, name), <<>>, BindingsOf(q))]

QualNone == [n |-> None, p |-> None]
QualU == [n |-> Some(NsU), p |-> None]
QualPU == [n |-> Some(NsU), p |-> Some(PrefixP)]

KidPool ==
    {Kid("v", QualU, Some(S(<<"x">>))), Kid("v", QualU, Some(S(<<"y">>))),
     Kid("v", QualPU, Some(S(<<"x">>))), Kid("v", QualU, None),
     Kid("v", QualNone, Some(S(<<"x">>))), Kid("s", QualNone, Some(S(<<"z">>)))}

FieldV == FT(Qualified(QualU, "v"), TVec(TString))

DocsOf(kids) == Concat([i \in 1..Len(kids) |-> kids[i].doc])

SeqDocInputs ==
    {[fam |-> "dseq", kids |-> kids, at |-> 3, fty |-> TVec(TString),
      ty |-> RootOf(<<FieldV, FT(S(<<"s">>), TOption(TString))>>),
      doc |-> DocOf(DocsOf(kids))] : kids \in SeqsUpTo(KidPool, 1, MaxKids)}

(* A union field f whose variants are declared {u:a}a and {u:a}b. *)
TagA == Qualified(QualU, "a")
TagB == Qualified(QualU, "b")

Unions ==
    {<<UnitV(TagA), UnitV(TagB)>>,
     <<NewtypeV(TagA, TString), NewtypeV(TagB, TI8)>>,
     <<StructV(TagA, <<FT(S(<<"c">>), TString)>>), UnitV(Qualified(QualPU, "b"))>>}

Locals == {"a", "b", "c"}

ElementQuals == {QualNone, QualU, QualPU, [n |-> Some(NsW), p |-> None]}

Contents == {"empty", "text", "digit", "child"}

ContentOf(content) ==
    CASE content = "empty" -> <<>>
      [] content = "text" -> S(<<"x">>)
      [] content = "digit" -> S(<<"5">>)
      [] content = "child" -> Element(S(<<"c">>), <<>>, {}, S(<<"x">>))

EnumInputs ==
    {[fam |-> "enum", variants |-> vs, local |-> l, q |-> q, content |-> c, at |-> 3,
      fty |-> TEnum(vs), ty |-> RootOf(<<FT(S(<<"f">>), TEnum(vs))>>),
      doc |-> DocOf(Element(S(<<"f">>), <<>>, {},
                  Element(Written(q, l), <<>>, BindingsOf(q), ContentOf(c))))] :
        vs \in Unions, l \in Locals, q \in ElementQuals, c \in Contents}

(* A record with the fields b and s among children that match no field:   *)
(* empty, with text, with attributes and descendants (one of them named as *)
(* a field of the record), and a b of another namespace.  Each child has   *)
(* the number n of its events.                                             *)
SkipKid(known, n, doc) == [known |-> known, n |-> n, doc |-> doc]

KnownB == SkipKid("b", 3, ElementB)
KnownS == SkipKid("s", 3, ElementS)

SkipPool ==
    {KnownB, KnownS,
     SkipKid("", 2, EmptyElement(S(<<"z">>), <<>>, {})),
     SkipKid("", 3, Element(S(<<"z">>), <<>>, {}, S(<<"q">>))),
     SkipKid("", 8, Element(S(<<"z">>), <<Attr(S(<<"a">>), S(<<"1">>))>>, {},
                        Element(S(<<"y">>), <<>>, {}, ElementB) \o S(<<"t">>))),
     SkipKid("", 3, Element(S(<<"b">>), <<>>, {Binding(<<>>, NsU)}, S(<<"q">>)))}

RECURSIVE EventsOf(_)
EventsOf(kids) == IF kids = <<>> THEN 0 ELSE Head(kids).n + EventsOf(Tail(kids))

(* The first child that matches no field. *)
FirstUnknown(kids) == Min({i \in 1..Len(kids) : kids[i].known = ""})

SkipFields == <<FTDefault(S(<<"b">>), TString), FT(S(<<"s">>), TOption(TString))>>

SkipInputs ==
    {[fam |-> "skip", kids |-> kids, fty |-> TIgnoredAny,
      at |-> 3 + EventsOf(SubSeq(kids, 1, FirstUnknown(kids) - 1)),
      ty |-> RootOf(SkipFields), doc |-> DocOf(DocsOf(kids))] :
        kids \in {ks \in SeqsUpTo(SkipPool, 1, MaxKids) :
                    /\ \E i \in 1..Len(ks) : ks[i].known = ""
                    /\ \A i, j \in 1..Len(ks) :
                          (ks[i].known # "" /\ ks[i] = ks[j]) => i = j}}

(* A record with the fields b, n and f, one of whose elements is faulty:   *)
(* the document ends in it (cut), its closing tag names another element,   *)
(* it holds an event of the wrong kind, or its text does not parse.  Each  *)
(* fault has the error it is and the number of events up to and with the   *)
(* one the failure is found at.                                            *)
Fault(field, kind, err, used, cut, doc) ==
    [field |-> field, kind |-> kind, err |-> err, used |-> used, cut |-> cut, doc |-> doc]

WrongClose(name, text) == <<OpenTag(S(<<name>>), <<>>, {})>> \o text \o <<CloseTag(S(<<"c">>))>>

Truncated(name, text) == <<OpenTag(S(<<name>>), <<>>, {})>> \o text

FaultFields == <<FT(S(<<"b">>), TString), FT(S(<<"n">>), TI8), FT(S(<<"f">>), TBool)>>

GoodKids ==
    <<ElementB, Element(S(<<"n">>), <<>>, {}, S(<<"5">>)),
      Element(S(<<"f">>), <<>>, {}, S(<<"1">>))>>

Faults ==
    {Fault(1, "wrong_kind", "ExpectedString", 2, FALSE, Element(S(<<"b">>), <<>>, {}, <<>>)),
     Fault(1, "wrong_kind", "ExpectedElement", 3, FALSE,
           Element(S(<<"b">>), <<>>, {}, S(<<"z">>) \o EmptyElement(S(<<"c">>), <<>>, {}))),
     Fault(1, "wrong_close", "Syntax", 3, FALSE, WrongClose("b", S(<<"z">>))),
     Fault(1, "end_of_stream", "Syntax", 3, TRUE, Truncated("b", S(<<"z">>))),
     Fault(1, "end_of_stream", "Syntax", 2, TRUE, Truncated("b", <<>>)),
     Fault(2, "unparsable", "ExpectedInt", 3, FALSE, Element(S(<<"n">>), <<>>, {}, S(<<"x">>))),
     Fault(2, "unparsable", "ExpectedInt", 3, FALSE,
           Element(S(<<"n">>), <<>>, {}, S(<<"1", "2", "8">>))),
     Fault(2, "unparsable", "ExpectedInt", 4, FALSE,
           Element(S(<<"n">>), <<>>, {}, EmptyElement(S(<<"x">>), <<>>, {}))),
     Fault(2, "wrong_kind", "ExpectedString", 2, FALSE, EmptyElement(S(<<"n">>), <<>>, {})),
     Fault(2, "wrong_close", "Syntax", 3, FALSE, WrongClose("n", S(<<"5">>))),
     Fault(2, "end_of_stream", "Syntax", 3, TRUE, Truncated("n", S(<<"5">>))),
     Fault(3, "unparsable", "ExpectedBool", 3, FALSE, Element(S(<<"f">>), <<>>, {}, S(<<"x">>))),
     Fault(3, "wrong_kind", "ExpectedElement", 3, FALSE,
           Element(S(<<"f">>), <<>>, {}, S(<<"1">>) \o ElementB)),
     Fault(3, "wrong_close", "Syntax", 3, FALSE, WrongClose("f", S(<<"1">>))),
     Fault(3, "end_of_stream", "Syntax", 3, TRUE, Truncated("f", S(<<"1">>)))}

FaultDoc(fault) ==
    <<Mk(DeclToken), OpenTag(S(<<"r">>), <<>>, {})>>
    \o Concat(SubSeq(GoodKids, 1, fault.field - 1)) \o fault.doc
    \o (IF fault.cut THEN <<>>
        ELSE Concat(SubSeq(GoodKids, fault.field + 1, 3)) \o <<CloseTag(S(<<"r">>))>>)

FaultInputs ==
    {[fam |-> "fault", fault |-> fault, at |-> 3 * fault.field,
      fty |-> FaultFields[fault.field].ty, ty |-> RootOf(FaultFields),
      doc |-> FaultDoc(fault)] : fault \in Faults}

(* Records whose first field is of a type read without a look at "is map  *)
(* value": serde's IgnoredAny before a $value string, and unit before a    *)
(* string.                                                                 *)
ElementX == Element(S(<<"x">>), <<>>, {}, S(<<"1">>))

PassInputs ==
    {[fam |-> "pass", at |-> 3, fty |-> TIgnoredAny,
      ty |-> RootOf(<<FT(S(<<"u">>), TIgnoredAny), FT(ValueSentinel, TString)>>),
      doc |-> DocOf(EmptyElement(S(<<"u">>), <<>>, {}) \o ElementX)],
     [fam |-> "pass", at |-> 3, fty |-> TUnit,
      ty |-> RootOf(<<FT(S(<<"u">>), TUnit), FT(S(<<"b">>), TString)>>),
      doc |-> DocOf(EmptyElement(S(<<"u">>), <<>>, {}) \o ElementB)]}

DeInputs ==
    OptInputs \cup SeqDocInputs \cup EnumInputs \cup SkipInputs \cup FaultInputs
    \cup PassInputs

DeInit == pc = "de" /\ inp \in DeInputs /\ out = NoOut

(* from_str on the document. *)
Decode ==
    /\ pc = "de"
    /\ pc' = "decoded"
    /\ out' = from_str(inp.ty, inp.doc)
    /\ UNCHANGED inp

(* The deserializer as the record's map leaves it before the value of the  *)
(* field whose element starts at event inp.at: the elements before it are  *)
(* read, the element is pending.                                           *)
AtField ==
    set_map_value([Deserializer(ReadEvents(inp.doc)) EXCEPT !.pos = inp.at, !.depth = 1])

(* Map::next_value_seed for that field alone. *)
DecodeValue ==
    /\ pc = "de"
    /\ pc' = "value_decoded"
    /\ out' = Outcome(Deserialize(inp.fty, AtField))
    /\ UNCHANGED inp

DeNext == Decode \/ DecodeValue

SpecDe == DeInit /\ [][DeNext]_vars

(* The value of the field key of a record value. *)
FieldOf(v, key) == v.fs[CHOOSE i \in 1..Len(v.fs) : v.fs[i].key = key].v

(* The record under the root element of a decoded document. *)
Inner(v) == v.fs[1].v

---------------------------------------------------------------------------
(* Optional fields on decode.                                              *)

(* The element of the optional field is empty and carries no attribute. *)
AbsentCase ==
    inp.fam = "opt" /\ inp.attrs = <<>> /\ inp.form \in {"empty", "pair", "space"}

(* C4: optional absent.  Decoding an empty element that carries no         *)
(* attributes (its start immediately followed by its matching end) into an *)
(* optional field of a record yields absent, consumes exactly that         *)
(* start/end pair, and leaves the cursor on the next sibling.              *)
C4_OptionalAbsent ==
    /\ (pc = "decoded" /\ AbsentCase) =>
          /\ out.ok
          /\ FieldOf(Inner(out.val), S(<<"t">>)) = VNone
          /\ inp.before => FieldOf(Inner(out.val), S(<<"b">>)) = VStr(S(<<"z">>))
          /\ inp.after => FieldOf(Inner(out.val), S(<<"s">>)) = VStr(S(<<"x">>))
    /\ (pc = "value_decoded" /\ AbsentCase) =>
          /\ out.ok
          /\ out.val = VNone
          /\ out.de = [pos |-> inp.at + 2, pk |-> 0, depth |-> 1, is_map_value |-> FALSE]
          /\ ReadEvents(inp.doc)[inp.at + 1] = REnd(Name(S(<<"t">>), None, None))
          /\ ReadEvents(inp.doc)[inp.at + 2].name.local
                = (IF inp.after THEN S(<<"s">>) ELSE S(<<"r">>))

(* An empty element before a sibling was read as absent, and the cursor is *)
(* on the sibling's start.                                                 *)
C4_AbsentBeforeSibling ==
    /\ pc = "value_decoded" /\ AbsentCase /\ inp.after /\ inp.form = "empty"
    /\ out.ok /\ out.val = VNone
    /\ ReadEvents(inp.doc)[out.de.pos].t = "Start"
    /\ ReadEvents(inp.doc)[out.de.pos].name.local = S(<<"s">>)

(* The element of the optional field is empty and carries attributes, and  *)
(* the field is an optional scalar.                                        *)
PresentByAttributesCase ==
    /\ inp.fam = "opt" /\ inp.attrs # <<>> /\ inp.form \in {"empty", "pair", "space"}
    /\ inp.of.k \in {"String", "i8", "bool"}

(* C5: optional present by attributes.  Decoding an empty element that     *)
(* carries one or more attributes into an optional scalar field of a       *)
(* record yields present with default (empty) content; the decode does not *)
(* fail and does not yield absent.                                         *)
C5_OptionalPresentByAttributes ==
    (pc = "decoded" /\ PresentByAttributesCase) =>
        /\ out.ok
        /\ FieldOf(Inner(out.val), S(<<"t">>)) = VSome(DefaultOf(inp.of))

(* C5, what the code does instead: the decode of the scalar fails for want *)
(* of text.                                                                *)
C5_ScalarByAttributesFails ==
    (pc = "decoded" /\ PresentByAttributesCase) => (~out.ok /\ out.err = "ExpectedString")

(* C5, for an optional record: attributes on an empty element make it      *)
(* present, with its attribute fields read.                                *)
C5_RecordPresentByAttributes ==
    (pc = "decoded" /\ inp.fam = "opt" /\ inp.attrs # <<>> /\ inp.of.k = "struct"
        /\ inp.form \in {"empty", "pair", "space"}) =>
        /\ out.ok
        /\ FieldOf(Inner(out.val), S(<<"t">>))
              = VSome(VStruct(<<FV(AttrSentinel \o S(<<"a">>), VStr(inp.attrs[1].value))>>))

---------------------------------------------------------------------------
(* Sequence grouping on decode.                                            *)

(* The maximal run of elements named as the first one. *)
RunLen ==
    LET breaks == {i \in 1..Len(inp.kids) : inp.kids[i].name # inp.kids[1].name}
    IN  IF breaks = {} THEN Len(inp.kids) ELSE Min(breaks) - 1

KidEvents(kid) == IF kid.text.some THEN <<"Start", "Chars", "End">> ELSE <<"Start", "End">>

RunEvents == Len(Concat([i \in 1..RunLen |-> KidEvents(inp.kids[i])]))

(* The elements the field {u:a}v matches. *)
FieldKids ==
    {i \in 1..Len(inp.kids) :
        inp.kids[i].name.local = S(<<"v">>) /\ inp.kids[i].name.ns = Some(NsU)}

(* They are one run of one name, each with text, and s comes at most once. *)
OneRun ==
    /\ FieldKids # {}
    /\ FieldKids = Min(FieldKids)..Max(FieldKids)
    /\ \A i \in FieldKids :
          inp.kids[i].text.some /\ inp.kids[i].name = inp.kids[Min(FieldKids)].name
    /\ Cardinality({i \in 1..Len(inp.kids) : inp.kids[i].name.local = S(<<"s">>)}) <= 1

(* C7: sequence grouping on decode.  A sequence field of a record decodes  *)
(* to exactly the maximal run of consecutive sibling elements whose        *)
(* qualified name equals that of the first element of the run, one value   *)
(* per element in document order; the run ends, without consuming it, at   *)
(* the first event that is not an element-start with that name.  (A member *)
(* without text fails the decode of a string.)                              *)
C7_SequenceGroupingDecode ==
    /\ (pc = "value_decoded" /\ inp.fam = "dseq") =>
          IF \E i \in 1..RunLen : ~inp.kids[i].text.some THEN ~out.ok
          ELSE /\ out.ok
               /\ out.val = VSeq([i \in 1..RunLen |-> VStr(inp.kids[i].text.v)])
               /\ out.de.pos = inp.at + RunEvents
               /\ out.de.pk = 0
               /\ ~(/\ ReadEvents(inp.doc)[out.de.pos].t = "Start"
                    /\ ReadEvents(inp.doc)[out.de.pos].name = inp.kids[1].name)
    /\ (pc = "decoded" /\ inp.fam = "dseq") =>
          /\ out.ok <=> OneRun
          /\ out.ok =>
                FieldOf(Inner(out.val), Qualified(QualU, "v"))
                    = VSeq([i \in 1..Cardinality(FieldKids) |->
                                VStr(inp.kids[Min(FieldKids) + i - 1].text.v)])

(* Two members were read and the run ended before a third element of the   *)
(* same local name and namespace but another prefix.                      *)
C7_RunEndsAtOtherName ==
    /\ pc = "value_decoded" /\ inp.fam = "dseq" /\ Len(inp.kids) = 3 /\ RunLen = 2
    /\ inp.kids[1].text # inp.kids[2].text
    /\ inp.kids[3].name.local = inp.kids[1].name.local
    /\ inp.kids[3].name.ns = inp.kids[1].name.ns
    /\ out.ok /\ Len(out.val.vs) = 2
    /\ ReadEvents(inp.doc)[out.de.pos].t = "Start"

---------------------------------------------------------------------------
(* Enum variant selection on decode.                                       *)

(* The declared variants the element's namespace and local name match. *)
Selected ==
    {i \in 1..Len(inp.variants) :
        /\ LibCaptures(inp.variants[i].tag).n = inp.q.n
        /\ LibCaptures(inp.variants[i].tag).e = S(<<inp.local>>)}

(* The element's content is what the variant's kind reads. *)
Fits(v) ==
    CASE v.kind = "unit" -> inp.content = "empty"
      [] v.kind = "newtype" ->
            IF v.ty = TString THEN inp.content \in {"text", "digit"}
            ELSE inp.content = "digit"
      [] v.kind = "struct" -> inp.content = "child" /\ inp.q.p.some

---------------------------------------------------------------------------
(* Raw capture: a nested element where a string was expected, and the      *)
(* string written back under $valueRaw.                                    *)

PrefixQ == S(<<"q">>)

(* How the nested element n is named: plainly, under a prefix or a default *)
(* namespace of its own, or under the prefix of the root element.          *)
SubNames == {"plain", "own_prefix", "own_default", "outer_prefix"}

SubWritten(kind, e) ==
    CASE kind = "own_prefix" -> PrefixQ \o Colon \o S(<<e>>)
      [] kind = "outer_prefix" -> PrefixP \o Colon \o S(<<e>>)
      [] OTHER -> S(<<e>>)

SubBindings(kind) ==
    CASE kind = "own_prefix" -> {Binding(PrefixQ, NsW)}
      [] kind = "own_default" -> {Binding(<<>>, NsW)}
      [] OTHER -> {}

SubAttrs(kind) ==
    {<<>>, <<Attr(S(<<"a">>), S(<<"1">>))>>,
     <<Attr(SubWritten(IF kind = "own_default" THEN "plain" ELSE kind, "a"),
            <<Ch("x"), Esc(Ch("<")), Esc(Ch("\""))>>)>>}

SubContents == {"empty", "text", "escaped", "cdata", "spaced", "child", "children", "deep"}

SubContent(kind, content) ==
    CASE content = "empty" -> <<>>
      [] content = "text" -> S(<<"x">>)
      [] content = "escaped" -> <<Ch("a"), Esc(Ch("<")), Esc(Ch("&"))>>
      [] content = "cdata" -> <<Cd(S(<<"a", "<">>))>>
      [] content = "spaced" -> S(<<" ", "x", " ">>)
      [] content = "child" -> Element(SubWritten(kind, "m"), <<>>, {}, S(<<"x">>))
      [] content = "children" ->
            Element(S(<<"m">>), <<>>, {}, S(<<"x">>)) \o EmptyElement(S(<<"k">>), <<>>, {})
      [] content = "deep" ->
            Element(S(<<"m">>), <<>>, {},
                    Element(SubWritten(kind, "k"), <<>>, {}, S(<<"x">>)))
            \o S(<<"y">>)

Subtree(kind, attrs, content) ==
    IF content = "empty" THEN EmptyElement(SubWritten(kind, "n"), attrs, SubBindings(kind))
    ELSE Element(SubWritten(kind, "n"), attrs, SubBindings(kind), SubContent(kind, content))

(* The string field: the $value of the root record, or a field h of it. *)
RawWraps == {"value", "field"}

(* The field h as the document's root element puts it in a namespace. *)
RawFieldTag(docq) == Qualified([n |-> IF docq.p.some THEN None ELSE docq.n, p |-> None], "h")

RawType(wrap, declq, docq) ==
    TStruct(<<FT(Qualified(declq, "r"),
                 TStruct(<<FT(IF wrap = "value" THEN ValueSentinel ELSE RawFieldTag(docq),
                              TString)>>))>>)

RawDoc(wrap, docq, sub) ==
    <<Mk(DeclToken)>>
    \o Element(Written(docq, "r"), <<>>, BindingsOf(docq),
               IF wrap = "value" THEN sub ELSE Element(S(<<"h">>), <<>>, {}, sub))

(* The value that writes the captured string back in the same place. *)
RawValue(wrap, declq, docq, captured) ==
    LET raw == VStruct(<<FV(ValueRawSentinel, VStr(captured))>>)
    IN  VStruct(<<FV(Qualified(declq, "r"),
                     IF wrap = "value" THEN raw
                     ELSE VStruct(<<FV(RawFieldTag(docq), raw)>>))>>)

RawQuals == {QualNone, QualU, QualPU}

RawInput(wrap, docq, declq, kind, attrs, content) ==
    [fam |-> "raw", wrap |-> wrap, docq |-> docq, declq |-> declq, name |-> kind,
     content |-> content, at |-> IF wrap = "value" THEN 3 ELSE 4,
     ty |-> RawType(wrap, declq, docq),
     doc |-> RawDoc(wrap, docq, Subtree(kind, attrs, content))]

RawInputs ==
    UNION {UNION {{RawInput(wrap, docq, declq, kind, attrs, content) :
                      wrap \in RawWraps, declq \in {q \in RawQuals : q.n = docq.n},
                      attrs \in SubAttrs(kind), content \in SubContents} :
                  kind \in {k \in SubNames : k = "outer_prefix" => docq = QualPU}} :
           docq \in RawQuals}

RawInit == pc = "raw" /\ inp \in RawInputs /\ out = NoOut

(* The string a decode returned for the field. *)
Captured(o) == Inner(o.val).fs[1].v.s

(* from_str on the document: the string field meets the nested element. *)
Capture ==
    /\ pc = "raw"
    /\ pc' = "captured"
    /\ out' = [first |-> from_str(inp.ty, inp.doc)]
    /\ UNCHANGED inp

(* to_string on the captured string under $valueRaw. *)
Reencode ==
    /\ pc = "captured" /\ out.first.ok
    /\ pc' = "reencoded"
    /\ out' = [first |-> out.first,
               enc |-> to_string(RawValue(inp.wrap, inp.declq, inp.docq,
                                          Captured(out.first)))]
    /\ UNCHANGED inp

(* from_str on the document written. *)
Redecode ==
    /\ pc = "reencoded" /\ out.enc.ok
    /\ pc' = "redecoded"
    /\ out' = [first |-> out.first, enc |-> out.enc,
               second |-> from_str(inp.ty, out.enc.text)]
    /\ UNCHANGED inp

RawNext == Capture \/ Reencode \/ Redecode

SpecRaw == RawInit /\ [][RawNext]_vars

(* The events of the nested element in a document read under the wrapper:  *)
(* from its start to its end.                                              *)
SubtreeOf(events) == SubSeq(events, inp.at, Len(events) - (inp.at - 1))

(* An event without the namespace scope and the prefixes it was read with. *)
Bare(name) == [local |-> name.local, ns |-> name.ns]

BareEvent(e) ==
    CASE e.t = "Start" ->
            [t |-> "Start", name |-> Bare(e.name),
             attrs |-> [i \in 1..Len(e.attrs) |->
                          [name |-> Bare(e.attrs[i].name), value |-> e.attrs[i].value]]]
      [] e.t = "End" -> [t |-> "End", name |-> Bare(e.name)]
      [] OTHER -> e

BareEvents(events) == [i \in 1..Len(events) |-> BareEvent(events[i])]

(* C9, first part: the string returned is the re-serialization of the      *)
(* whole nested subtree: read alone, it gives the subtree's events (start  *)
(* tag, attributes, namespace bindings in scope, every descendant event in *)
(* order, end tag).                                                        *)
C9_CaptureIsSubtree ==
    (pc = "captured" /\ inp.fam = "raw") =>
        /\ out.first.ok
        /\ ReadEvents(Captured(out.first))
              = <<RStartDocument>> \o SubtreeOf(ReadEvents(inp.doc)) \o <<REndDocument>>

(* C9, second part: the string written under $valueRaw and decoded again   *)
(* gives an equivalent subtree: the same events with the same names,       *)
(* namespaces, attributes and text.                                        *)
C9_ReencodedEquivalent ==
    /\ (pc = "reencoded" /\ inp.fam = "raw") =>
          /\ out.enc.ok
          /\ BareEvents(SubtreeOf(ReadEvents(out.enc.text)))
                = BareEvents(SubtreeOf(ReadEvents(inp.doc)))
    /\ (pc = "redecoded" /\ inp.fam = "raw") =>
          /\ out.second.ok
          /\ BareEvents(ReadEvents(Captured(out.second)))
                = BareEvents(ReadEvents(Captured(out.first)))

(* C9: raw capture.  When a string field is decoded and a nested           *)
(* element-start appears where text was expected, the returned string is   *)
(* the re-serialization of that whole nested subtree, and encoding that    *)
(* string under a $valueRaw field and decoding the result again yields an  *)
(* equivalent subtree.                                                     *)
C9_RawCapture == C9_CaptureIsSubtree /\ C9_ReencodedEquivalent

(* C9, where the second part holds: the record's element is declared with  *)
(* the prefix the document wrote it with.                                  *)
C9_EquivalentUnderSameBindings ==
    (inp.fam = "raw" /\ inp.declq = inp.docq) => C9_ReencodedEquivalent

---------------------------------------------------------------------------
(* Round trip: to_string, then from_str into the shape of the value.       *)

Typed(ty, v, note) == [ty |-> ty, v |-> v, note |-> note]

RtUnion ==
    TEnum(<<UnitV(S(<<"a">>)), NewtypeV(S(<<"b">>), TI8),
            TupleV(S(<<"c">>), <<TI8, TString>>),
            StructV(S(<<"d">>), <<FT(S(<<"c">>), TString)>>)>>)

RtRecord == TStruct(<<FT(AttrSentinel \o S(<<"a">>), TString), FT(S(<<"c">>), TI8)>>)

RtStrings == {S(<<"x">>), S(<<"y">>)}

(* Values of every kind, each with its shape. *)
RtPool ==
    {Typed(TString, VStr(S(<<"x">>)), "plain"),
     Typed(TString, VStr(S(<<"a", "<">>)), "plain"),
     Typed(TString, VStr(<<>>), "empty_string"),
     Typed(TString, VStr(S(<<" ", "x">>)), "spaced_string"),
     Typed(TI8, VInt(-12), "plain"),
     Typed(TI8, VInt(127), "plain"),
     Typed(TBool, VBool(TRUE), "plain"),
     Typed(TBool, VBool(FALSE), "plain"),
     Typed(TOption(TString), VNone, "plain"),
     Typed(TOption(TString), VSome(VStr(S(<<"x">>))), "plain"),
     Typed(TOption(TString), VSome(VStr(<<>>)), "empty_string"),
     Typed(TOption(TI8), VSome(VInt(5)), "plain"),
     Typed(RtUnion, VUnitVariant(S(<<"a">>)), "plain"),
     Typed(RtUnion, VNewtypeVariant(S(<<"b">>), VInt(5)), "plain"),
     Typed(RtUnion, VTupleVariant(S(<<"c">>), <<VInt(5), VStr(S(<<"x">>))>>),
           "tuple_variant"),
     Typed(RtUnion, VStructVariant(S(<<"d">>), <<FV(S(<<"c">>), VStr(S(<<"x">>)))>>),
           "plain"),
     Typed(RtRecord,
           VStruct(<<FV(AttrSentinel \o S(<<"a">>), VStr(S(<<"1">>))),
                     FV(S(<<"c">>), VInt(7))>>), "plain")}
    \cup {Typed(TVec(TString), VSeq([i \in 1..Len(ms) |-> VStr(ms[i])]),
                IF ms = <<>> THEN "empty_seq" ELSE "plain") :
            ms \in SeqsUpTo(RtStrings, 0, MaxSeqLen)}

RtLocals == <<"f", "g">>

(* A root record r whose record holds the given typed values as fields f,  *)
(* g, declared under fq.                                                   *)
RtInput(rq, fq, members) ==
    [fam |-> "rt", rq |-> rq, fq |-> fq, members |-> members,
     ty |-> TStruct(<<FT(Qualified(rq, "r"),
               TStruct([i \in 1..Len(members) |->
                           FT(Qualified(fq, RtLocals[i]), members[i].ty)]))>>),
     v |-> VStruct(<<FV(Qualified(rq, "r"),
               VStruct([i \in 1..Len(members) |->
                           FV(Qualified(fq, RtLocals[i]), members[i].v)]))>>)]

RtInputs ==
    UNION {{RtInput(rq, fq, members) :
               fq \in {QualNone, rq}, members \in SeqsUpTo(RtPool, 1, 2)} :
           rq \in RawQuals}

RtInit == pc = "rt" /\ inp \in RtInputs /\ out = NoOut

(* to_string on the value. *)
RtEncode ==
    /\ pc = "rt"
    /\ pc' = "rt_encoded"
    /\ out' = [enc |-> to_string(inp.v)]
    /\ UNCHANGED inp

(* from_str on the document written, into the shape of the value. *)
RtDecode ==
    /\ pc = "rt_encoded" /\ out.enc.ok
    /\ pc' = "rt_decoded"
    /\ out' = [enc |-> out.enc, dec |-> from_str(inp.ty, out.enc.text)]
    /\ UNCHANGED inp

RtNext == RtEncode \/ RtDecode

SpecRT == RtInit /\ [][RtNext]_vars

(* C1: round trip.  For every value v built from records, tagged unions    *)
(* (unit, newtype, tuple and struct variants), sequences of length 0 to 3, *)
(* optional fields (absent, and present including present with empty      *)
(* text), strings, integers and booleans, whose shape has no raw-capture   *)
(* field and exercises no unmapped-field fallback, from_str(to_string(v))  *)
(* succeeds and returns a value equal to v.                                *)
C1_RoundTrip ==
    /\ (pc = "rt_encoded" /\ inp.fam = "rt") => out.enc.ok
    /\ (pc = "rt_decoded" /\ inp.fam = "rt") => (out.dec.ok /\ out.dec.val = inp.v)

(* C1, where it holds: no empty or space-edged string, no empty sequence,  *)
(* no tuple variant, and no element that takes a default namespace from    *)
(* its parent.                                                             *)
C1_RoundTripWithoutEmpties ==
    (/\ inp.fam = "rt"
     /\ \A i \in 1..Len(inp.members) : inp.members[i].note = "plain"
     /\ inp.rq # QualU) => C1_RoundTrip

---------------------------------------------------------------------------
(* The event list the serializer writes to when events are asked for       *)
(* (ListWriter), and to_events.                                            *)

ListWriterInit == [events |-> <<>>, panic |-> FALSE]

(* xml::name::Name from the name the element is started with: the prefix   *)
(* and the local name, no namespace.                                       *)
OwnedName(qname) == Name(SplitQName(qname).local, None, SplitQName(qname).prefix)

(* ListWriter::write: the reader's event for the writer's; an end element  *)
(* without a name is the unreachable!() arm.                               *)
ListWrite(lw, e) ==
    IF lw.panic THEN lw
    ELSE CASE e.t = "start" ->
                [lw EXCEPT !.events = Append(@, RStart(OwnedName(e.name), e.attrs, e.ns))]
           [] e.t = "end" ->
                IF e.name.some
                THEN [lw EXCEPT !.events = Append(@, REnd(OwnedName(e.name.v)))]
                ELSE [lw EXCEPT !.panic = TRUE]
           [] e.t = "chars" -> [lw EXCEPT !.events = Append(@, RChars(e.s))]
           [] e.t = "cdata" -> [lw EXCEPT !.events = Append(@, RCData(e.s))]

RECURSIVE ListWriteAll(_, _)
ListWriteAll(lw, events) ==
    IF events = <<>> THEN lw
    ELSE ListWriteAll(ListWrite(lw, Head(events)), Tail(events))

(* What to_events_custom returns for the writer lw after format_data       *)
(* ended in the state st.                                                  *)
EventsResult(st, lw) ==
    [ok |-> ~st.panic /\ ~lw.panic, panic |-> st.panic \/ lw.panic,
     events |-> lw.events]

ListWritten(r) == EventsResult(r.st, ListWriteAll(ListWriterInit, r.ev))

to_events_custom(v, include) ==
    ListWritten(FormatData(Serialize(v), SerializerState(include)))

to_events(v) == to_events_custom(v, TRUE)

---------------------------------------------------------------------------
(* Output forms and options: to_string, to_string_custom without schema    *)
(* locations, and to_events on the same value.                             *)

(* Values without any element. *)
BareInputs ==
    {[fam |-> "bare", include |-> TRUE, v |-> v] :
        v \in {VStr(S(<<"x">>)), VInt(3), VSeq(<<VStr(S(<<"x">>)), VInt(3)>>)}}

OutInputs == {i \in SerInputs : i.include} \cup BareInputs

OutInit == pc = "out" /\ inp \in OutInputs /\ out = NoOut

(* to_string on the value. *)
EncodeDefault ==
    /\ pc = "out"
    /\ pc' = "out_default"
    /\ out' = [dflt |-> to_string(inp.v)]
    /\ UNCHANGED inp

(* to_string_custom with include_schema_location: false. *)
EncodeTerse ==
    /\ pc = "out_default"
    /\ pc' = "out_terse"
    /\ out' = [dflt |-> out.dflt, terse |-> to_string_custom(inp.v, FALSE)]
    /\ UNCHANGED inp

(* to_events on the value. *)
EncodeEvents ==
    /\ pc = "out_terse"
    /\ pc' = "out_events"
    /\ out' = [dflt |-> out.dflt, terse |-> out.terse, list |-> to_events(inp.v)]
    /\ UNCHANGED inp

OutNext == EncodeDefault \/ EncodeTerse \/ EncodeEvents

SpecOut == OutInit /\ [][OutNext]_vars

XsiBinding == [prefix |-> XsiPrefix, uri |-> XsiUri]

BindsXsi(ns) == \E b \in ns : b.prefix = XsiPrefix

(* The start events of a list of writer events. *)
Starts(events) == {i \in 1..Len(events) : events[i].t = "start"}

EventHasSchemaLocation(e) ==
    \E i \in 1..Len(e.attrs) :
        e.attrs[i].name = Name(SchemaLocation, None, Some(XsiPrefix))

NotSchemaLocation(a) == a.name # SchemaLocationName

(* A document without its xsi bindings and schema-location attributes. *)
StripXsi(doc) ==
    [i \in 1..Len(doc) |->
        IF doc[i].k = "m" /\ doc[i].tok.t \in {"open", "empty"}
        THEN Mk([doc[i].tok EXCEPT
                    !.attrs = SelectSeq(@, NotSchemaLocation),
                    !.ns = {b \in @ : b.prefix # XsiPrefix}])
        ELSE doc[i]]

OptionEncoded == pc \in {"out_terse", "out_events"}

---------------------------------------------------------------------------
(* The event list of to_events.                                            *)

(* The encoding of the value contains an element. *)
HasElement == Starts(out.dflt.events) # {}

(* Every element-start of the list is closed by an element-end of the same *)
(* qualified name, innermost first, and nothing is left open.              *)
RECURSIVE Nested(_, _, _)
Nested(events, i, open) ==
    IF i > Len(events) THEN open = <<>>
    ELSE IF events[i].t = "Start"
    THEN Nested(events, i + 1, Append(open, events[i].name))
    ELSE IF events[i].t = "End"
    THEN /\ open # <<>>
         /\ open[Len(open)] = events[i].name
         /\ Nested(events, i + 1, SubSeq(open, 1, Len(open) - 1))
    ELSE Nested(events, i + 1, open)

WellNested(events) == Nested(events, 1, <<>>)

(* The tags and the text of a list of events, in order. *)
RECURSIVE ListShape(_, _, _)
ListShape(events, i, acc) ==
    IF i > Len(events) THEN acc
    ELSE ListShape(events, i + 1,
            IF events[i].t = "Start"
            THEN [acc EXCEPT !.tags = Append(@, <<"start", QName(events[i].name)>>)]
            ELSE IF events[i].t = "End"
            THEN [acc EXCEPT !.tags = Append(@, <<"end", QName(events[i].name)>>)]
            ELSE [acc EXCEPT !.text = @ \o events[i].s])

(* The tags and the text of a document, in order, without the line breaks  *)
(* of its indentation.                                                     *)
RECURSIVE DocShape(_, _, _)
DocShape(doc, i, acc) ==
    IF i > Len(doc) THEN acc
    ELSE DocShape(doc, i + 1,
            IF doc[i].k = "m" /\ doc[i].tok.t = "open"
            THEN [acc EXCEPT !.tags = Append(@, <<"start", doc[i].tok.name>>)]
            ELSE IF doc[i].k = "m" /\ doc[i].tok.t = "empty"
            THEN [acc EXCEPT !.tags = @ \o <<<<"start", doc[i].tok.name>>,
                                              <<"end", doc[i].tok.name>>>>]
            ELSE IF doc[i].k = "m" /\ doc[i].tok.t = "close"
            THEN [acc EXCEPT !.tags = Append(@, <<"end", doc[i].tok.name>>)]
            ELSE IF doc[i].k = "m" \/ doc[i] = Newline THEN acc
            ELSE [acc EXCEPT !.text = Append(@, doc[i])])

NoShape == [tags |-> <<>>, text |-> <<>>]

SameOrder(events, doc) == ListShape(events, 1, NoShape) = DocShape(doc, 1, NoShape)

(* C12: event-list output.  For every value whose encoding contains at     *)
(* least one element, to_events returns successfully an ordered list of    *)
(* events that is well nested, every element-start followed by one         *)
(* element-end of the same qualified name with the element's content in    *)
(* between, in the order of the text to_string writes.                     *)
C12_EventList ==
    (pc = "out_events" /\ HasElement) =>
        /\ out.list.ok
        /\ WellNested(out.list.events)
        /\ SameOrder(out.list.events, out.dflt.text)

(* C12, as the code has it: to_events panics exactly when the encoding     *)
(* contains an element, at the first element-end, which format_data writes *)
(* without a name; a value without any element gives its text events.      *)
C12_EventListPanicsOnElements ==
    pc = "out_events" =>
        /\ out.list.panic <=> HasElement
        /\ ~HasElement =>
              /\ out.list.ok
              /\ WellNested(out.list.events)
              /\ SameOrder(out.list.events, out.dflt.text)
        /\ HasElement =>
              \A i \in 1..Len(out.list.events) : out.list.events[i].t # "End"

---------------------------------------------------------------------------
(* Children that match no field of the record.                             *)

Present(kids, known) == \E i \in 1..Len(kids) : kids[i].known = known

(* The record the document gives: b and s where they are present. *)
SkipExpected ==
    VStruct(<<FV(S(<<"r">>),
        VStruct(<<FV(S(<<"b">>), IF Present(inp.kids, "b") THEN VStr(S(<<"z">>))
                                 ELSE VStr(<<>>)),
                  FV(S(<<"s">>), IF Present(inp.kids, "s") THEN VSome(VStr(S(<<"x">>)))
                                 ELSE VNone)>>))>>)

(* C13: unknown-field skip.  A record that declares no $value field is     *)
(* decoded from an element with children that match no declared field:     *)
(* the decode succeeds, every declared field present in the document has   *)
(* its value, and the whole element is consumed; the skip of such a child  *)
(* alone consumes the child with all its descendants and stops at the      *)
(* event after its end, at the nesting depth it started from.              *)
C13_UnknownFieldSkip ==
    inp.fam = "skip" =>
        /\ pc = "decoded" =>
              /\ out.ok
              /\ out.val = SkipExpected
              /\ out.de.pos = 3 + EventsOf(inp.kids) + 1
              /\ out.de.depth = 0
        /\ pc = "value_decoded" =>
              /\ out.ok
              /\ out.de.pos = inp.at + inp.kids[FirstUnknown(inp.kids)].n
              /\ out.de.depth = 1

(* An unknown child with attributes, descendants and text, one descendant  *)
(* named as the field b, is skipped before the b and the s of the record   *)
(* are read.                                                               *)
C13_NestedUnknownSkipped ==
    /\ pc = "decoded" /\ inp.fam = "skip"
    /\ Len(inp.kids) = 3 /\ inp.kids[1].n = 8 /\ inp.kids[2] = KnownB
    /\ inp.kids[3] = KnownS
    /\ out.ok
    /\ Inner(out.val).fs[1].v = VStr(S(<<"z">>))
    /\ Inner(out.val).fs[2].v = VSome(VStr(S(<<"x">>)))

---------------------------------------------------------------------------
(* Faulty documents.                                                       *)

(* C14: data errors are typed and terminal.  A premature end of the        *)
(* stream, a closing tag of another name than the opened element's, an     *)
(* event of the wrong kind and an unparsable scalar each make from_str,    *)
(* and the read of the faulty field alone, return one error of the         *)
(* expected kind, never a panic and no value; the last event consumed is   *)
(* the one the failure is found at.                                        *)
C14_DataErrors ==
    (inp.fam = "fault" /\ pc \in {"decoded", "value_decoded"}) =>
        /\ ~out.ok
        /\ out.err = inp.fault.err
        /\ out.err # "Panic"
        /\ out.val = Nil
        /\ out.de.pos = inp.at + inp.fault.used

(* A number that does not parse in the second of three fields: the decode  *)
(* fails with ExpectedInt at the end of that element, the third field      *)
(* unread.                                                                 *)
C14_UnparsableStopsDecode ==
    /\ pc = "decoded" /\ inp.fam = "fault"
    /\ inp.fault.field = 2 /\ inp.fault.kind = "unparsable"
    /\ out.err = "ExpectedInt" /\ out.val = Nil
    /\ out.de.pos = 9

---------------------------------------------------------------------------
(* The loops of the decoder, one iteration at a time: the members of a     *)
(* sequence (next_element_seed from the visitor of Vec), the skip of an    *)
(* unknown child (deserialize_ignored_any) and the capture of an element   *)
(* (parse_string).                                                         *)

MaxIterations == 10

(* The deserializer before the child at event at of the root element; the  *)
(* child is pending as a map value when wrapped.  The events are those the *)
(* tokenizer reads from the document.                                      *)
AtChild(events, at, wrapped) ==
    [Deserializer(events) EXCEPT !.pos = at, !.depth = 1,
                                          !.is_map_value = wrapped]

LoopInputs ==
    {[fam |-> "loop", kind |-> "seq", of |-> m.of, wrapped |-> m.wrapped,
      doc |-> i.doc, events |-> ReadEvents(i.doc), at |-> i.at] :
        m \in {[of |-> TString, wrapped |-> TRUE], [of |-> TUnit, wrapped |-> TRUE],
               [of |-> TUnit, wrapped |-> FALSE]},
        i \in SeqDocInputs}
    \cup {[fam |-> "loop", kind |-> k, of |-> TString, wrapped |-> FALSE, doc |-> i.doc,
           events |-> ReadEvents(i.doc), at |-> i.at] :
            k \in {"skip", "capture"}, i \in SkipInputs}

LoopInit == pc = "loop" /\ inp \in LoopInputs /\ out = NoOut

(* Seq::new, then visit_seq. *)
EnterSeq ==
    /\ pc = "loop" /\ inp.kind = "seq"
    /\ LET seq == SeqNew(AtChild(inp.events, inp.at, inp.wrapped))
       IN  /\ pc' = IF Failed(seq.de) THEN "returned" ELSE "in_seq"
           /\ out' = [de |-> seq.de, expected_name |-> seq.expected_name, n |-> 0]
    /\ UNCHANGED inp

(* One turn of the visitor's loop: next_element_seed, and the member kept. *)
SeqIterate ==
    /\ pc = "in_seq" /\ out.n < MaxIterations
    /\ LET r == next_element_seed(inp.of,
                    [de |-> out.de, expected_name |-> out.expected_name])
       IN  /\ pc' = IF Failed(r.seq.de) \/ ~r.val.some THEN "returned" ELSE "in_seq"
           /\ out' = [de |-> r.seq.de, expected_name |-> out.expected_name,
                      n |-> out.n + 1]
    /\ UNCHANGED inp

(* deserialize_ignored_any: the depth on entry. *)
EnterSkip ==
    /\ pc = "loop" /\ inp.kind = "skip"
    /\ pc' = "in_skip"
    /\ out' = [de |-> AtChild(inp.events, inp.at, TRUE), depth |-> 1, n |-> 0]
    /\ UNCHANGED inp

(* One turn of its loop: next(), and the test of the depth. *)
SkipIterate ==
    /\ pc = "in_skip" /\ out.n < MaxIterations
    /\ pc' = IF Failed(next(out.de)) \/ next(out.de).depth = out.depth
             THEN "returned" ELSE "in_skip"
    /\ out' = [out EXCEPT !.de = next(out.de), !.n = @ + 1]
    /\ UNCHANGED inp

(* parse_string on an element: its start taken, the depth to come back to. *)
EnterCapture ==
    /\ pc = "loop" /\ inp.kind = "capture"
    /\ pc' = "in_capture"
    /\ out' = [de |-> next(AtChild(inp.events, inp.at, FALSE)), depth |-> 1, n |-> 0]
    /\ UNCHANGED inp

(* One turn of its loop: next(), the test of the depth, the event written. *)
CaptureIterate ==
    /\ pc = "in_capture" /\ out.n < MaxIterations
    /\ pc' = IF Failed(next(out.de)) \/ next(out.de).depth = out.depth
             THEN "returned" ELSE "in_capture"
    /\ out' = [out EXCEPT !.de = next(out.de), !.n = @ + 1]
    /\ UNCHANGED inp

LoopNext ==
    \/ EnterSeq \/ SeqIterate \/ EnterSkip \/ SkipIterate
    \/ EnterCapture \/ CaptureIterate

SpecLoop == LoopInit /\ [][LoopNext]_vars

(* A loop of the code runs on as long as it can. *)
SpecLoopFair == SpecLoop /\ WF_vars(LoopNext)

InLoop == pc \in {"in_seq", "in_skip", "in_capture"}

(* C15, first part: every decode loop returns. *)
C15_Returns == <>(pc = "returned")

(* C15, second part: a turn of a loop that does not leave the loop has     *)
(* consumed an event.                                                      *)
C15_EveryIterationConsumes ==
    [][(InLoop /\ pc' = pc) => out'.de.pos > out.de.pos]_vars

(* C15: termination.  For every finite event stream and every target       *)
(* shape, sequences of units, the skip of an unknown child and the raw     *)
(* capture included, the decode returns a value or an error, and no loop   *)
(* iterates without consuming an event.                                    *)
C15_Termination == C15_Returns /\ C15_EveryIterationConsumes

UnitMembers == inp.kind = "seq" /\ inp.of = TUnit

(* C15, as the code has it: every loop but the sequence of units returns   *)
(* and consumes an event at each turn.                                     *)
C15_TerminatesWithoutUnit ==
    /\ UnitMembers \/ <>(pc = "returned")
    /\ [][(~UnitMembers /\ InLoop /\ pc' = pc) => out'.de.pos > out.de.pos]_vars

(* The sequence of units: a first member is found, no event is ever        *)
(* consumed and the loop is never left.                                    *)
C15_UnitSequenceSpins ==
    (UnitMembers /\ pc = "in_seq") =>
        /\ out.de.pos = inp.at
        /\ ~Failed(out.de)

---------------------------------------------------------------------------
(* The field matcher on its own: declared field lists and the names of     *)
(* elements and attributes.                                                *)

MaxFields == 3

(* A declared field: the string declared, and the parts it is made of. *)
DeclaredField(attr, q, e) ==
    [decl |-> (IF attr THEN AttrSentinel ELSE <<>>) \o Qualified(q, e),
     attr |-> attr, ns |-> q.n, local |-> S(<<e>>)]

FieldPool ==
    {DeclaredField(FALSE, QualNone, "a"), DeclaredField(FALSE, QualU, "a"),
     DeclaredField(FALSE, QualPU, "a"), DeclaredField(TRUE, QualNone, "a"),
     DeclaredField(TRUE, QualU, "a"),
     DeclaredField(FALSE, [n |-> Some(NsW), p |-> None], "a"),
     [decl |-> ValueSentinel, attr |-> FALSE, ns |-> None, local |-> ValueSentinel]}

MatchNames ==
    {Name(S(<<"a">>), None, None), Name(S(<<"a">>), Some(NsU), None),
     Name(S(<<"a">>), Some(NsU), Some(PrefixP)), Name(S(<<"a">>), Some(NsW), None),
     Name(S(<<"b">>), None, None), Name(S(<<"b">>), Some(NsU), None)}

MatchInputs ==
    {[fam |-> "match", fields |-> fs, name |-> n] :
        fs \in SeqsUpTo(FieldPool, 0, MaxFields), n \in MatchNames}

MatchInit == pc = "match" /\ inp \in MatchInputs /\ out = NoOut

Declarations == [i \in 1..Len(inp.fields) |-> inp.fields[i].decl]

(* Fields::from on the declared names, then match_field on the name of an  *)
(* element.                                                                *)
MatchElement ==
    /\ pc = "match"
    /\ pc' = "element_matched"
    /\ out' = [key |-> match_field(FieldsFrom(Declarations), inp.name)]
    /\ UNCHANGED inp

(* ... and match_attr on the name of an attribute. *)
MatchAttribute ==
    /\ pc = "match"
    /\ pc' = "attribute_matched"
    /\ out' = [key |-> match_attr(FieldsFrom(Declarations), inp.name)]
    /\ UNCHANGED inp

MatchNext == MatchElement \/ MatchAttribute

SpecMatch == MatchInit /\ [][MatchNext]_vars

(* The fields of the list that are or are not attributes and carry the     *)
(* local name and the namespace of the name.                               *)
SameName(attr) ==
    {i \in 1..Len(inp.fields) :
        /\ inp.fields[i].attr = attr
        /\ inp.fields[i].local = inp.name.local
        /\ inp.fields[i].ns = inp.name.ns}

DeclaresValue == \E i \in 1..Len(inp.fields) : inp.fields[i].decl = ValueSentinel

SynthesizedKey ==
    IF inp.name.ns.some
    THEN S(<<"{">>) \o inp.name.ns.v \o S(<<"}">>) \o inp.name.local
    ELSE inp.name.local

(* C16: the field matcher on elements.  match_field returns the declared   *)
(* name of the first field in list order that is not an attribute field    *)
(* and has the local name and the namespace of the element; failing that   *)
(* $value when the list holds the literal $value; failing that the key     *)
(* {namespace}local-name, or local-name for an element without namespace.  *)
(* The declared name of an attribute field is never returned.              *)
C16_FieldMatcherElements ==
    pc = "element_matched" =>
        /\ out.key = IF SameName(FALSE) # {} THEN inp.fields[Min(SameName(FALSE))].decl
                     ELSE IF DeclaresValue THEN ValueSentinel
                     ELSE SynthesizedKey
        /\ \A i \in 1..Len(inp.fields) : inp.fields[i].attr => out.key # inp.fields[i].decl

(* An attribute field of the element's name comes first in the list and    *)
(* two plain fields of that name follow: the first of the two is returned. *)
C16_FirstPlainFieldWins ==
    /\ pc = "element_matched"
    /\ Len(inp.fields) = 3
    /\ SameName(TRUE) = {1} /\ SameName(FALSE) = {2, 3}
    /\ inp.fields[2] # inp.fields[3]
    /\ out.key = inp.fields[2].decl

---------------------------------------------------------------------------
(* Scalar reads on their own: a scalar read at any event of a document,    *)
(* with "is map value" set or unset.                                       *)

ScalarKids ==
    {ElementB, Element(S(<<"b">>), <<>>, {}, <<Cd(S(<<"z">>))>>),
     EmptyElement(S(<<"b">>), <<>>, {}),
     Element(S(<<"b">>), <<>>, {}, S(<<"z">>) \o EmptyElement(S(<<"c">>), <<>>, {})),
     Element(S(<<"b">>), <<>>, {}, Element(S(<<"c">>), <<>>, {}, S(<<"z">>))),
     Element(S(<<"b">>), <<>>, {}, EmptyElement(S(<<"c">>), <<>>, {}) \o S(<<"z">>)),
     Element(S(<<"n">>), <<>>, {}, S(<<"5">>)),
     Element(S(<<"n">>), <<>>, {}, S(<<"-", "7">>) \o ElementB),
     Element(S(<<"n">>), <<>>, {}, S(<<"x">>)),
     Element(S(<<"f">>), <<>>, {}, S(<<"1">>)),
     Element(S(<<"f">>), <<>>, {}, <<Cd(S(<<"n">>))>>),
     S(<<"5">>) \o ElementB,
     Truncated("b", S(<<"z">>))}

DepthAt(events, at) ==
    Cardinality({i \in 2..(at - 1) : events[i].t = "Start"})
    - Cardinality({i \in 2..(at - 1) : events[i].t = "End"})

ScalarInputs ==
    UNION {LET doc == <<Mk(DeclToken), OpenTag(S(<<"r">>), <<>>, {})>> \o kid
                      \o (IF kid = Truncated("b", S(<<"z">>)) THEN <<>>
                          ELSE <<CloseTag(S(<<"r">>))>>)
               events == ReadEvents(doc)
           IN  {[fam |-> "scalar", doc |-> doc, events |-> events, at |-> at,
                 flag |-> flag, ty |-> ty] :
                    at \in 3..(Len(events) + 1), flag \in BOOLEAN,
                    ty \in {TString, TI8, TBool}}
           : kid \in ScalarKids}

ScalarInit == pc = "scalar" /\ inp \in ScalarInputs /\ out = NoOut

(* The deserializer at the event at, inside the elements open there. *)
AtEvent(events, at, flag) ==
    [Deserializer(events) EXCEPT !.pos = at, !.depth = DepthAt(events, at),
                                          !.is_map_value = flag]

(* deserialize_string, deserialize_i8 or deserialize_bool at the event. *)
ReadScalar ==
    /\ pc = "scalar"
    /\ pc' = "scalar_read"
    /\ out' = Outcome(Deserialize(inp.ty, AtEvent(inp.events, inp.at, inp.flag)))
    /\ UNCHANGED inp

ScalarNext == ReadScalar

SpecScalar == ScalarInit /\ [][ScalarNext]_vars

ScalarEvent(i) == IF i \in 1..Len(inp.events) THEN inp.events[i] ELSE NoEvent

(* The body alone, the text every scalar is parsed from, read from the     *)
(* event after the one the read is at.                                     *)
ScalarBody == Outcome(Deserialize(TString, AtEvent(inp.events, inp.at + 1, FALSE)))

(* The scalar the text is, or the error of the type. *)
ScalarOf(ty, text) ==
    CASE ty = TString -> [ok |-> TRUE, val |-> VStr(text), err |-> ""]
      [] ty = TI8 -> [ok |-> FromStrI8(text).some, val |-> VInt(FromStrI8(text).v),
                      err |-> "ExpectedInt"]
      [] ty = TBool -> [ok |-> BoolOf(text).some, val |-> VBool(BoolOf(text).v),
                        err |-> "ExpectedBool"]

(* The events from..to - 1 are one text event, or one whole element. *)
OneTextOrElement(from, to) ==
    \/ to = from + 1 /\ ScalarEvent(from).t \in {"Chars", "CData"}
    \/ /\ ScalarEvent(from).t = "Start" /\ ScalarEvent(to - 1).t = "End"
       /\ DepthAt(inp.events, to) = DepthAt(inp.events, from)
       /\ \A i \in (from + 1)..(to - 1) :
             DepthAt(inp.events, i) > DepthAt(inp.events, from)

FailsWith(e, err) == ~out.ok /\ (e.t \notin {"Error"} => out.err = err)

(* C17: the wrapped scalar read.  With "is map value" set a scalar read    *)
(* takes one element start, reads the body (the text the scalar is parsed  *)
(* from once the read is over), and takes the next event, which has to be  *)
(* the end of an element of the same qualified name: it                    *)
(* fails with ExpectedElement when the first event is no element start or  *)
(* the event after the body is not that end, and with the body's error     *)
(* when the body fails.  With the flag unset it reads the body where the   *)
(* reader is: a returned read has taken the body's events only (one text   *)
(* event, or the one element a string captures), no enclosing start or     *)
(* end.                                                                    *)
C17_WrappedScalarRead ==
    pc = "scalar_read" =>
        IF inp.flag
        THEN IF ScalarEvent(inp.at).t # "Start"
             THEN FailsWith(ScalarEvent(inp.at), "ExpectedElement") /\ out.de.pos <= inp.at + 1
             ELSE IF ~ScalarBody.ok
             THEN ~out.ok /\ out.err = ScalarBody.err /\ out.de.pos = ScalarBody.de.pos
             ELSE IF /\ ScalarEvent(ScalarBody.de.pos).t = "End"
                     /\ ScalarEvent(ScalarBody.de.pos).name = ScalarEvent(inp.at).name
             THEN /\ out.ok = ScalarOf(inp.ty, ScalarBody.val.s).ok
                  /\ out.ok => out.val = ScalarOf(inp.ty, ScalarBody.val.s).val
                  /\ ~out.ok => out.err = ScalarOf(inp.ty, ScalarBody.val.s).err
                  /\ out.de.pos = ScalarBody.de.pos + 1
                  /\ OneTextOrElement(inp.at + 1, out.de.pos - 1)
                  /\ out.de.depth = DepthAt(inp.events, inp.at)
             ELSE FailsWith(ScalarEvent(ScalarBody.de.pos), "ExpectedElement")
        ELSE out.ok => /\ OneTextOrElement(inp.at, out.de.pos)
                       /\ out.de.depth = DepthAt(inp.events, inp.at)
                       /\ (inp.ty # TString => out.de.pos = inp.at + 1)

(* A wrapped number whose text is followed by an element: the body is read *)
(* and the read fails on the event after it.                               *)
C17_ClosingEventDiffers ==
    /\ pc = "scalar_read" /\ inp.flag /\ inp.ty = TI8
    /\ ScalarEvent(inp.at).t = "Start"
    /\ ScalarBody.ok /\ ScalarBody.val = VStr(S(<<"-", "7">>))
    /\ ScalarEvent(ScalarBody.de.pos).t = "Start"
    /\ ~out.ok /\ out.err = "ExpectedElement"

---------------------------------------------------------------------------
(* "is map value" after a value.                                           *)

(* C18: "is map value" is one-shot.  Whenever the read of a value entered  *)
(* with the flag set returns a value (scalar, optional, sequence, record,  *)
(* enum, unit or the skip of an unknown field), the flag is unset.         *)
C18_FlagOneShot ==
    (pc = "value_decoded" /\ out.ok) => ~out.de.is_map_value

(* The reads that take the flag: every returned read but unit and the skip *)
(* leaves it unset.                                                        *)
C18_FlagTakenByOtherReads ==
    (pc = "value_decoded" /\ out.ok /\ inp.fty \notin {TIgnoredAny, TUnit})
        => ~out.de.is_map_value

(* The skip and unit return with the flag as it was. *)
C18_SkipAndUnitLeaveFlag ==
    (pc = "value_decoded" /\ inp.fty \in {TIgnoredAny, TUnit})
        => (out.ok => out.de.is_map_value)

(* The flag left by an IgnoredAny field reaches the $value string after    *)
(* it, which is read as text wrapped in <x> and not as the element <x>;    *)
(* unit leaves its element unread too, and the record fails on the field   *)
(* met twice.                                                              *)
C18_LeftFlagReachesNextValue ==
    (pc = "decoded" /\ inp.fam = "pass") =>
        IF inp.fty = TIgnoredAny
        THEN out.ok /\ out.val.fs[1].v.fs[2].v = VStr(S(<<"1">>))
        ELSE ~out.ok /\ out.err = "Custom" /\ out.de.pos = 3

---------------------------------------------------------------------------
(* The map of a record, key by key and value by value.                     *)

AttrA == Attr(S(<<"a">>), S(<<"1">>))

MapKids == {ElementB, ElementS, ElementX, S(<<"t">>)}

MapFieldLists ==
    {<<FTDefault(S(<<"b">>), TString), FTDefault(S(<<"s">>), TOption(TString)),
       FTDefault(AttrSentinel \o S(<<"a">>), TString), FTDefault(ValueSentinel, TString)>>,
     <<FTDefault(S(<<"b">>), TString), FTDefault(S(<<"s">>), TOption(TString))>>}

MapInputs ==
    {[fam |-> "map", fields |-> fields,
      events |-> ReadEvents(<<Mk(DeclToken)>> \o Element(S(<<"r">>), attrs, {}, Concat(kids)))] :
        fields \in MapFieldLists, attrs \in {<<>>, <<AttrA>>},
        kids \in {ks \in SeqsUpTo(MapKids, 0, MaxKids) :
                    \A i, j \in 1..Len(ks) : ks[i] = ks[j] => i = j}}

MapInit == pc = "map" /\ inp \in MapInputs /\ out = NoOut

NoRead ==
    [some |-> FALSE, key |-> <<>>, attr |-> FALSE, text |-> FALSE, flag |-> FALSE, nth |-> 0]

(* deserialize_struct up to Map::new: the element of the record is taken   *)
(* as a map value, its attributes go to the map.                           *)
EnterRecord ==
    /\ pc = "map"
    /\ pc' = "key"
    /\ out' = [map |-> MapNew(InnerDe(AtEvent(inp.events, 2, TRUE)),
                              InnerAttrs(AtEvent(inp.events, 2, TRUE)),
                              KeysOf(inp.fields)),
               key |-> None, attr |-> FALSE, text |-> FALSE, got |-> {}, last |-> NoRead]
    /\ UNCHANGED inp

(* next_key_seed, and the derived visitor's look at the key: no key ends   *)
(* the record, a field met twice fails it.                                 *)
NextKey ==
    /\ pc = "key"
    /\ LET k == next_key_seed(out.map)
       IN  /\ pc' = IF Failed(k.map.de) THEN "map_failed"
                    ELSE IF ~k.key.some THEN "map_done"
                    ELSE IF k.key.v \in out.got /\ FieldIndex(inp.fields, k.key.v) # 0
                    THEN "map_failed"
                    ELSE "value"
           /\ out' = [out EXCEPT !.map = k.map, !.key = k.key,
                                 !.attr = (out.map.attrs # <<>>),
                                 !.text = (Peeked(out.map.de).t \in {"Chars", "CData"})]
    /\ UNCHANGED inp

(* next_value_seed with the seed of the key's field, IgnoredAny for a key  *)
(* that names no field.                                                    *)
NextValue ==
    /\ pc = "value"
    /\ LET i == FieldIndex(inp.fields, out.key.v)
           r == next_value_seed(IF i = 0 THEN TIgnoredAny ELSE inp.fields[i].ty, out.map)
       IN  /\ pc' = IF Failed(r.map.de) THEN "map_failed" ELSE "key"
           /\ out' = [out EXCEPT !.map = r.map, !.got = @ \cup {out.key.v},
                                 !.last = [some |-> TRUE, key |-> out.key.v,
                                           attr |-> out.attr, text |-> out.text,
                                           flag |-> ValueDe(out.map).is_map_value,
                                           nth |-> Cardinality({k \in out.got :
                                                       ~StartsWith(k, AttrSentinel)}) + 1]]
    /\ UNCHANGED inp

MapNext == EnterRecord \/ NextKey \/ NextValue

SpecMap == MapInit /\ [][MapNext]_vars

(* The last value read was that of a child, not of an attribute. *)
ChildRead == pc # "map" /\ out.last.some /\ ~out.last.attr

(* C19: inner-value keys are not wrapped.  In the decoding of a record,    *)
(* the value of a child whose key is $value (a text child, or an element   *)
(* that matches no field of a record that declares $value) is read with    *)
(* "is map value" unset, wherever the child stands among the children; the *)
(* value of a child with any other key is read with the flag set.          *)
C19_InnerValueNotWrapped ==
    ChildRead => (out.last.flag <=> out.last.key # ValueSentinel)

(* What the code does: the value of an element is read with the flag set   *)
(* exactly when its key is not $value, and so is the value of a text that  *)
(* is the first child the map reads; a text read after another child is    *)
(* read with the flag set (nth: the place of the child among those read).  *)
C19_TextAfterValueWrapped ==
    ChildRead =>
        /\ ~out.last.text => (out.last.flag <=> out.last.key # ValueSentinel)
        /\ out.last.text => (out.last.flag <=> out.last.nth > 1)

(* A record that declares $value and reads it from a text after another    *)
(* child fails: the string is asked for an element start.                  *)
C19_TextAfterValueFails ==
    (ChildRead /\ out.last.text /\ out.last.nth > 1
        /\ FieldIndex(inp.fields, ValueSentinel) # 0)
        => pc = "map_failed" /\ out.map.de.err = "ExpectedElement"

---------------------------------------------------------------------------
(* Numbers: the text of an element decoded as each numeric type.           *)

MaxNumLen == 3

NumChars == {"1", "2", "5", "6", "0", "-", "+", "."}

NumTypes == {TI8, TU8, TU64, TF64}

NumInputs ==
    {[fam |-> "num", ty |-> ty, text |-> S(t),
      events |-> ReadEvents(DocOf(Element(S(<<"n">>), <<>>, {}, S(t))))] :
        ty \in NumTypes, t \in SeqsUpTo(NumChars, 1, MaxNumLen)}

NumInit == pc = "num" /\ inp \in NumInputs /\ out = NoOut

(* deserialize_i8, deserialize_u8, deserialize_u64 or deserialize_f64 as   *)
(* the value of the element n.                                             *)
DecodeNumber ==
    /\ pc = "num"
    /\ pc' = "num_decoded"
    /\ out' = Outcome(Deserialize(inp.ty, AtEvent(inp.events, 3, TRUE)))
    /\ UNCHANGED inp

NumNext == DecodeNumber

SpecNum == NumInit /\ [][NumNext]_vars

(* The float m / 10^d without the trailing zeros of its fraction. *)
RECURSIVE Normal(_, _)
Normal(m, d) ==
    IF m = 0 THEN VFloat(0, 0)
    ELSE IF d > 0 /\ m % 10 = 0 THEN Normal(m \div 10, d - 1)
    ELSE VFloat(m, d)

(* str::parse::<f64> on texts of signs, digits and a point: an optional    *)
(* sign, then digits with at most one point and at least one digit.        *)
FromStrFloat(s) ==
    LET signed == s # <<>> /\ s[1] \in {Ch("-"), Ch("+")}
        body == IF signed THEN Tail(s) ELSE s
        points == {i \in 1..Len(body) : body[i] = Ch(".")}
        digits == SelectSeq(body, LAMBDA x : x # Ch("."))
        d == IF points = {} THEN 0 ELSE Len(body) - Min(points)
        m == IF s[1] = Ch("-") THEN 0 - DigitsValue(digits) ELSE DigitsValue(digits)
    IN  IF Cardinality(points) <= 1 /\ AllDigits(digits)
        THEN Some(Normal(m, d)) ELSE [some |-> FALSE, v |-> Nil]

(* The standard parse of the type on the text. *)
StandardParse(ty, s) ==
    CASE ty = TI8 -> [some |-> FromStrI8(s).some, v |-> VInt(FromStrI8(s).v)]
      [] ty = TU8 -> [some |-> FromStrU8(s).some, v |-> VInt(FromStrU8(s).v)]
      [] ty = TU64 -> [some |-> FromStrU64(s).some, v |-> VInt(FromStrU64(s).v)]
      [] ty = TF64 -> FromStrFloat(s)

NumberDecoded ==
    IF StandardParse(inp.ty, inp.text).some
    THEN out.ok /\ out.val = StandardParse(inp.ty, inp.text).v
    ELSE ~out.ok /\ out.err = "ExpectedInt"

(* C20: numeric decoding.  For every numeric type and every text, the      *)
(* decoding of the text from the content of an element returns the value   *)
(* the type's standard parse gives for it, and fails with ExpectedInt when *)
(* the standard parse rejects the text.                                    *)
C20_NumericDecoding == pc = "num_decoded" => NumberDecoded

(* The integer types do so. *)
C20_IntegersAsParsed == (pc = "num_decoded" /\ inp.ty # TF64) => NumberDecoded

(* A float is decoded through the parse of a u64: the texts a u64 accepts  *)
(* give that number, every other text fails, a fraction or a negative      *)
(* number among them.                                                      *)
C20_FloatsParsedAsU64 ==
    (pc = "num_decoded" /\ inp.ty = TF64) =>
        IF FromStrU64(inp.text).some
        THEN out.ok /\ out.val = VFloat(FromStrU64(inp.text).v, 0)
        ELSE ~out.ok /\ out.err = "ExpectedInt"

(* 1.5 as a float: the standard parse has it, the decoding fails. *)
C20_FractionRejected ==
    /\ pc = "num_decoded" /\ inp.ty = TF64 /\ inp.text = S(<<"1", ".", "5">>)
    /\ StandardParse(TF64, inp.text) = Some(VFloat(15, 1))
    /\ ~out.ok /\ out.err = "ExpectedInt"

---------------------------------------------------------------------------
(* Phase 1 on its own: the node built for a variant of a tagged union.     *)

VariantTags == {VariantTag, S(<<"w">>), Qualified(QualU, "v")}

Payloads ==
    Members \cup {VSeq(<<VInt(-1)>>), VNone}
    \cup {VStruct(fs) : fs \in {r \in RoutingRecords : Len(r) = 2}}

TreeInputs ==
    {[fam |-> "tree", v |-> v] :
        v \in {VUnitVariant(t) : t \in VariantTags}
              \cup {VNewtypeVariant(t, p) : t \in VariantTags, p \in Payloads}
              \cup {VTupleVariant(t, ps) : t \in VariantTags,
                                          ps \in SeqsUpTo(Members, 1, MaxSeqLen)}
              \cup {VStructVariant(t, fs) : t \in VariantTags, fs \in RoutingRecords}}

TreeInit == pc = "tree" /\ inp \in TreeInputs /\ out = NoOut

(* value.serialize(&mut serializer): the node of the value. *)
BuildTree ==
    /\ pc = "tree"
    /\ pc' = "built"
    /\ out' = [d |-> Serialize(inp.v)]
    /\ UNCHANGED inp

TreeNext == BuildTree

SpecTree == TreeInit /\ [][TreeNext]_vars

(* The node is a structured node without attributes and with the one entry *)
(* (the variant's tag, d).                                                 *)
Wraps(node, d) ==
    /\ node.k = "Struct" /\ node.attrs = <<>>
    /\ node.contents = <<[tag |-> inp.v.tag, d |-> d]>>

(* The node is a structured node with one entry under the variant's tag. *)
WrapsAny(node) ==
    /\ node.k = "Struct" /\ Len(node.contents) = 1
    /\ node.contents[1].tag = inp.v.tag

(* The payload of a variant as a node. *)
PayloadNode(v) ==
    CASE v.k = "newtype_variant" -> Serialize(v.v)
      [] v.k = "tuple_variant" -> DSeq([i \in 1..Len(v.vs) |-> Serialize(v.vs[i])])
      [] v.k = "struct_variant" -> Serialize(VStruct(v.fs))
      [] OTHER -> Nil

(* C21: variant wrapping.  For a unit, newtype, tuple or struct variant    *)
(* phase 1 gives a structured node with exactly one (tag, node) entry, the *)
(* tag being the variant's declared tag and the node its payload.          *)
C21_VariantWrapping ==
    pc = "built" =>
        /\ WrapsAny(out.d)
        /\ inp.v.k # "unit_variant" => Wraps(out.d, PayloadNode(inp.v))

(* Newtype and struct variants are wrapped so. *)
C21_NewtypeAndStructWrapped ==
    (pc = "built" /\ inp.v.k \in {"newtype_variant", "struct_variant"})
        => Wraps(out.d, PayloadNode(inp.v))

(* A unit variant is the text of its tag and a tuple variant the sequence  *)
(* of its members: neither is a structured node, the tuple's tag is not in *)
(* the node at all.                                                        *)
C21_UnitAndTupleBare ==
    /\ (pc = "built" /\ inp.v.k = "unit_variant") => out.d = DCData(inp.v.tag)
    /\ (pc = "built" /\ inp.v.k = "tuple_variant") => out.d = PayloadNode(inp.v)

---------------------------------------------------------------------------
(* Raw mode: records with $valueRaw entries among escaped texts.           *)

MaxEntries == 3

Sharp == S(<<"<", "x", "&">>)

RawPool ==
    {FV(S(<<"b">>), VStr(Sharp)),
     FV(ValueSentinel, VStr(Sharp)),
     FV(ValueRawSentinel, VStr(Sharp)),
     FV(ValueRawSentinel, VSeq(<<VStr(Sharp), VInt(-1)>>)),
     FV(ValueRawSentinel, VStruct(<<FV(S(<<"c">>), VStr(Sharp))>>)),
     FV(ValueRawSentinel,
        VStruct(<<FV(ValueRawSentinel, VStr(S(<<"&">>))), FV(S(<<"e">>), VStr(Sharp))>>)),
     FV(S(<<"c">>),
        VStruct(<<FV(ValueRawSentinel, VStr(S(<<"<">>))), FV(S(<<"d">>), VStr(Sharp))>>)),
     FV(S(<<"d">>), VSeq(<<VStr(S(<<"&">>)), VStr(S(<<"x">>))>>))}

RawModeInputs ==
    {[fam |-> "rawmode", v |-> VStruct(<<FV(S(<<"r">>), VStruct(fs))>>)] :
        fs \in {r \in SeqsUpTo(RawPool, 1, MaxEntries) : Injective(r)}}

RawModeInit == pc = "rawmode" /\ inp \in RawModeInputs /\ out = NoOut

(* to_string_custom without schema locations: format_data over the tree. *)
Linearize ==
    /\ pc = "rawmode"
    /\ pc' = "linearized"
    /\ out' = to_string_custom(inp.v, FALSE)
    /\ UNCHANGED inp

RawModeNext == Linearize

SpecRawMode == RawModeInit /\ [][RawModeNext]_vars

(* The texts of a value in document order, those under a $valueRaw field   *)
(* as they are and the others escaped.                                     *)
RECURSIVE TextsOf(_, _)
RECURSIVE TextsOfFields(_, _)
RECURSIVE TextsOfMembers(_, _)
TextsOf(v, raw) ==
    CASE v.k = "str" -> IF raw THEN v.s ELSE EscapePcdata(v.s)
      [] v.k = "int" -> IntToStr(v.i)
      [] v.k = "seq" -> TextsOfMembers(v.vs, raw)
      [] v.k = "struct" -> TextsOfFields(v.fs, raw)

TextsOfFields(fs, raw) ==
    IF fs = <<>> THEN <<>>
    ELSE TextsOf(Head(fs).v, raw \/ Head(fs).key = ValueRawSentinel)
         \o TextsOfFields(Tail(fs), raw)

TextsOfMembers(vs, raw) ==
    IF vs = <<>> THEN <<>> ELSE TextsOf(Head(vs), raw) \o TextsOfMembers(Tail(vs), raw)

(* The text of a document: what is neither markup nor layout. *)
IsText(x) == x.k = "e" \/ (x.k = "c" /\ x.c \in {"<", "&", "x", "-", "1"})

(* C22: the scope of raw mode.  A text node is written unescaped exactly   *)
(* when it lies under an entry keyed $valueRaw, escaped otherwise; when    *)
(* the entry is done the raw flag is what it was before it, so the texts   *)
(* of later siblings and of ancestors are escaped as before, and the flag  *)
(* is unset when the call returns.                                         *)
C22_RawModeScope ==
    pc = "linearized" =>
        /\ out.ok
        /\ SelectSeq(out.text, IsText) = TextsOf(inp.v, FALSE)
        /\ ~out.st.raw_output

(* A raw entry inside a raw entry, with an element after it in the outer   *)
(* entry and an escaped sibling after both.                                *)
C22_EscapedAfterRaw ==
    /\ pc = "linearized" /\ out.ok
    /\ Len(inp.v.fs[1].v.fs) >= 2
    /\ inp.v.fs[1].v.fs[1].key = ValueRawSentinel
    /\ inp.v.fs[1].v.fs[1].v.k = "struct"
    /\ inp.v.fs[1].v.fs[1].v.fs[1].key = ValueRawSentinel
    /\ inp.v.fs[1].v.fs[2] = FV(S(<<"b">>), VStr(Sharp))
    /\ SelectSeq(out.text, IsText)
          = S(<<"&">>) \o Sharp \o EscapePcdata(Sharp)
            \o TextsOfFields(SubSeq(inp.v.fs[1].v.fs, 3, Len(inp.v.fs[1].v.fs)), FALSE)

---------------------------------------------------------------------------
(* Schema locations: elements declared with and without a hint.            *)

HintU == S(<<"u", ":", "a", " ", "l">>)
HintX == S(<<"x">>)

(* The namespace, hint and prefix a declared name may carry. *)
LocQuals ==
    {[n |-> None, l |-> None, p |-> None]}
    \cup {[n |-> Some(n), l |-> l, p |-> p] :
            n \in {NsU, NsW}, l \in {None, Some(HintU), Some(HintX)},
            p \in {None, Some(PrefixP)}}

LocDeclared(q, e) == FormatTag([n |-> q.n, l |-> q.l, p |-> q.p, e |-> S(<<e>>)])

LocInputs ==
    {[fam |-> "loc", include |-> include, qr |-> qr, qc |-> qc,
      v |-> VStruct(<<FV(LocDeclared(qr, "r"),
                IF qc.some THEN VStruct(<<FV(LocDeclared(qc.v, "c"), VStr(S(<<"x">>)))>>)
                ELSE VStr(S(<<"x">>)))>>)] :
        include \in BOOLEAN, qr \in LocQuals,
        qc \in {None} \cup {Some(q) : q \in LocQuals}}

LocInit == pc = "loc" /\ inp \in LocInputs /\ out = NoOut

(* to_string_custom on the value. *)
EncodeLocated ==
    /\ pc = "loc"
    /\ pc' = "located"
    /\ out' = to_string_custom(inp.v, inp.include)
    /\ UNCHANGED inp

LocNext == EncodeLocated

SpecLoc == LocInit /\ [][LocNext]_vars

(* The last path segment of the two namespaces. *)
LastOf(n) == IF n = NsU THEN S(<<"a">>) ELSE n

(* The schema location of a declaration: its hint, or the default. *)
LocationOf(q) ==
    IF q.l.some THEN q.l.v ELSE q.n.v \o Space \o LastOf(q.n.v) \o DotXsd

(* The elements written, with the declaration of each and whether its     *)
(* namespace is new where it stands.                                       *)
LocPlan ==
    <<[q |-> inp.qr, new |-> inp.qr.n.some]>>
    \o (IF inp.qc.some
        THEN <<[q |-> inp.qc.v, new |-> inp.qc.v.n.some /\ inp.qc.v.n # inp.qr.n]>>
        ELSE <<>>)

(* What the code writes: the text between the braces is the namespace,     *)
(* hint and semicolon included, and the value is the default made of it.   *)
BracedOf(q) == IF q.l.some THEN q.n.v \o S(<<";">>) \o q.l.v ELSE q.n.v

BracedLast(q) ==
    IF q.l = Some(HintU) THEN S(<<"a", " ", "l">>)
    ELSE IF q.l = Some(HintX) /\ q.n.v = NsU THEN S(<<"a", ";", "x">>)
    ELSE IF q.l = Some(HintX) THEN S(<<"w", ";", "x">>)
    ELSE LastOf(q.n.v)

DefaultOfBraced(q) == BracedOf(q) \o Space \o BracedLast(q) \o DotXsd

(* Every element that introduces a namespace carries the schema location  *)
(* with the hint-or-default value (as declared) or with the default made   *)
(* of the braced text.                                                     *)
LocatedAs(declared) ==
    (pc = "located" /\ inp.include) =>
        /\ out.ok /\ Len(Elements(out.text)) = Len(LocPlan)
        /\ \A i \in 1..Len(LocPlan) :
              LocPlan[i].new =>
                  /\ HasSchemaLocation(Elements(out.text)[i])
                  /\ AttrValue(Elements(out.text)[i], SchemaLocationName)
                        = IF declared THEN LocationOf(LocPlan[i].q)
                          ELSE DefaultOfBraced(LocPlan[i].q)

(* C23: the value of the schema location.  An element that introduces a    *)
(* namespace not on the stack, schema locations being enabled, carries the *)
(* schema-location attribute with the hint of its tag when the tag has     *)
(* one, and with "n last-segment-of-n.xsd" otherwise.                      *)
C23_SchemaLocationValue == LocatedAs(TRUE)

(* The hint is never taken for a hint: it stays in the namespace. *)
C23_HintTakenForNamespace == LocatedAs(FALSE)

(* Without a hint anywhere the value is the default. *)
C23_DefaultWithoutHint ==
    (~inp.qr.l.some /\ (inp.qc.some => ~inp.qc.v.l.some)) => LocatedAs(TRUE)

---------------------------------------------------------------------------
(* format_data step by step: the calls still to make (todo), the events    *)
(* written, the serializer state, and the elements that are open.          *)

StackInputs ==
    {[fam |-> "stack", include |-> TRUE, v |-> v] :
        v \in {j.v : j \in {i \in NsInputs : i.include}}
              \cup {j.v : j \in RawModeInputs}
              \cup {j.v : j \in {i \in SeqInputs : i.pre = <<>> /\ i.post = <<>>}}}

StackInit == pc = "stack" /\ inp \in StackInputs /\ out = NoOut

DoData(d) == [op |-> "data", d |-> d]
DoEntry(entry) == [op |-> "entry", entry |-> entry]
DoElement(caps, d) == [op |-> "element", caps |-> caps, d |-> d]
DoClose(should_pop) == [op |-> "close", should_pop |-> should_pop]
DoRestore(old_val) == [op |-> "restore", old_val |-> old_val]

NoneClosed == [some |-> FALSE, before |-> <<>>, after |-> <<>>]

(* to_string_custom up to the call of format_data on the tree. *)
StartCall ==
    /\ pc = "stack"
    /\ pc' = "walk"
    /\ out' = [todo |-> <<DoData(Serialize(inp.v))>>, ev |-> <<>>,
               st |-> SerializerState(inp.include), open |-> <<>>,
               closed |-> NoneClosed]
    /\ UNCHANGED inp

Doing == out.todo[1]

Walking(op) == pc = "walk" /\ out.todo # <<>> /\ Doing.op = op

(* A text node: one event. *)
StepText ==
    /\ Walking("data") /\ Doing.d.k \in {"CData", "String"}
    /\ out' = [out EXCEPT !.todo = Tail(@),
                          !.ev = @ \o FormatData(Doing.d, out.st).ev]
    /\ UNCHANGED <<pc, inp>>

(* A sequence: its members in order. *)
StepSeq ==
    /\ Walking("data") /\ Doing.d.k = "Seq"
    /\ out' = [out EXCEPT
                 !.todo = [i \in 1..Len(Doing.d.items) |-> DoData(Doing.d.items[i])]
                          \o Tail(@)]
    /\ UNCHANGED <<pc, inp>>

(* A structured node: its entries in order. *)
StepStruct ==
    /\ Walking("data") /\ Doing.d.k = "Struct"
    /\ out' = [out EXCEPT
                 !.todo = [i \in 1..Len(Doing.d.contents) |-> DoEntry(Doing.d.contents[i])]
                          \o Tail(@)]
    /\ UNCHANGED <<pc, inp>>

(* An entry keyed $valueRaw: the flag is kept, set, and given back after   *)
(* the node.                                                               *)
StepRaw ==
    /\ Walking("entry") /\ Doing.entry.tag = ValueRawSentinel
    /\ out' = [out EXCEPT
                 !.todo = <<DoData(Doing.entry.d), DoRestore(out.st.raw_output)>> \o Tail(@),
                 !.st.raw_output = TRUE]
    /\ UNCHANGED <<pc, inp>>

StepRestore ==
    /\ Walking("restore")
    /\ out' = [out EXCEPT !.todo = Tail(@), !.st.raw_output = Doing.old_val]
    /\ UNCHANGED <<pc, inp>>

(* An entry keyed $value...: the node, inline. *)
StepInline ==
    /\ Walking("entry") /\ Doing.entry.tag # ValueRawSentinel
    /\ StartsWith(Doing.entry.tag, ValueSentinel)
    /\ out' = [out EXCEPT !.todo = <<DoData(Doing.entry.d)>> \o Tail(@)]
    /\ UNCHANGED <<pc, inp>>

(* An entry under a tag: one element, or one per member of a sequence. *)
StepEntry ==
    /\ Walking("entry") /\ ~StartsWith(Doing.entry.tag, ValueSentinel)
    /\ LET caps == LibCaptures(Doing.entry.tag)
           d == Doing.entry.d
       IN  out' = IF ~caps.ok
                  THEN [out EXCEPT !.todo = <<>>, !.st.panic = TRUE]
                  ELSE [out EXCEPT
                          !.todo = (IF d.k = "Seq"
                                    THEN [i \in 1..Len(d.items) |->
                                            DoElement(caps, d.items[i])]
                                    ELSE <<DoElement(caps, d)>>) \o Tail(@)]
    /\ UNCHANGED <<pc, inp>>

(* The start of an element: its bindings, schema location and attributes   *)
(* are written, its namespace is pushed when it is not on the stack.       *)
StepOpen ==
    /\ Walking("element")
    /\ LET caps == Doing.caps
           d == Doing.d
       IN  out' = [out EXCEPT
                     !.todo = <<DoData(d), DoClose(Introduces(caps, out.st))>> \o Tail(@),
                     !.ev = Append(@, WStart(ElementName(caps),
                                              SchemaLocAttr(caps, out.st) \o ElementAttrs(d),
                                              ElementNs(caps, out.st))),
                     !.st.ns_stack = IF Introduces(caps, out.st)
                                     THEN Append(@, caps.n.v) ELSE @,
                     !.st.panic = @ \/ AttrsPanic(d),
                     !.open = Append(@, [n |-> caps.n, before |-> out.st.ns_stack])]
    /\ UNCHANGED <<pc, inp>>

(* if should_pop { state.ns_stack.pop(); }, taking whatever is there. *)
PopNsAlways(ns_stack, should_pop) ==
    IF ns_stack # <<>> THEN SubSeq(ns_stack, 1, Len(ns_stack) - 1) ELSE ns_stack

(* if should_pop { state.ns_stack.pop(); } *)
PopNs(ns_stack, should_pop) ==
    IF should_pop THEN SubSeq(ns_stack, 1, Len(ns_stack) - 1) ELSE ns_stack

(* The end of an element, and the pop of what it pushed. *)
StepClose ==
    /\ Walking("close")
    /\ out' = [out EXCEPT
                 !.todo = Tail(@),
                 !.ev = Append(@, WEnd),
                 !.st.ns_stack = PopNs(@, Doing.should_pop),
                 !.open = SubSeq(@, 1, Len(@) - 1),
                 !.closed = [some |-> TRUE, before |-> out.open[Len(out.open)].before,
                             after |-> PopNs(out.st.ns_stack, Doing.should_pop)]]
    /\ UNCHANGED <<pc, inp>>

(* format_data has returned to to_string_custom. *)
EndCall ==
    /\ pc = "walk" /\ out.todo = <<>>
    /\ pc' = "walked"
    /\ UNCHANGED <<inp, out>>

StackNext ==
    \/ StartCall \/ StepText \/ StepSeq \/ StepStruct \/ StepRaw \/ StepRestore
    \/ StepInline \/ StepEntry \/ StepOpen \/ StepClose \/ EndCall

SpecStack == StackInit /\ [][StackNext]_vars

(* The namespaces of the elements in order, each at its first place. *)
RECURSIVE FirstIntroduced(_)
FirstIntroduced(open) ==
    IF open = <<>> THEN <<>>
    ELSE LET front == FirstIntroduced(SubSeq(open, 1, Len(open) - 1))
             last == open[Len(open)]
         IN  IF last.n.some /\ \A i \in 1..Len(front) : front[i] # last.n.v
             THEN Append(front, last.n.v) ELSE front

(* C24: the discipline of the namespace stack.  At every point of the      *)
(* linearization the stack holds no namespace twice and holds exactly the  *)
(* namespaces the open elements introduced, in the order they opened; when *)
(* an element has closed the stack is what it was before the element       *)
(* opened, and when the call returns it is empty.                          *)
C24_NamespaceStack ==
    pc \in {"walk", "walked"} =>
        /\ \A i, j \in 1..Len(out.st.ns_stack) :
              out.st.ns_stack[i] = out.st.ns_stack[j] => i = j
        /\ out.st.ns_stack = FirstIntroduced(out.open)
        /\ out.closed.some => out.closed.after = out.closed.before
        /\ pc = "walked" => out.st.ns_stack = <<>> /\ out.open = <<>>

(* The steps write what format_data writes. *)
C24_StepsAreFormatData ==
    pc = "walked" =>
        /\ out.ev = FormatData(Serialize(inp.v), SerializerState(inp.include)).ev
        /\ out.st = FormatData(Serialize(inp.v), SerializerState(inp.include)).st

(* An element whose namespace its grandparent introduced has closed: it    *)
(* pushed nothing and popped nothing, its parent's namespace is still the  *)
(* top of a stack of two.                                                  *)
C24_ClosedWithoutPop ==
    /\ pc = "walk" /\ out.closed.some
    /\ Len(out.open) = 2 /\ Len(out.st.ns_stack) = 2
    /\ out.open[1].n # out.open[2].n
    /\ out.closed.before = out.st.ns_stack
    /\ out.ev[Len(out.ev)] = WEnd
    /\ \E e \in {out.ev[i] : i \in 1..Len(out.ev)} :
          e.t = "start" /\ \E b \in e.ns : b.uri = out.open[1].n.v /\ b.prefix # XsiPrefix
             /\ e.name \in {S(<<"c">>), PrefixP \o Colon \o S(<<"c">>)}

---------------------------------------------------------------------------
(* Tag::from_static: the process-wide cache behind a mutex, and threads    *)
(* that call it on static strings.  A static string is a pointer into the  *)
(* program's read-only storage and a length.                               *)

MaxCalls == 4

Threads == {"t1", "t2"}

Storage == <<"a", ":", "b", "c">>

Static(ptr, len) == [ptr |-> ptr, len |-> len]

Statics == {Static(1, 4), Static(1, 1), Static(3, 2), Static(4, 1)}

Content(str) == S(SubSeq(Storage, str.ptr, str.ptr + str.len - 1))

CacheInputs == {[fam |-> "cache", statics |-> ss] : ss \in (SUBSET Statics) \ {{}}}

NoThread == "nobody"

CacheInit ==
    /\ pc = "cache" /\ inp \in CacheInputs
    /\ out = [cache |-> {}, holder |-> NoThread, calls |-> 0,
              th |-> [t \in Threads |-> [at |-> "idle", str |-> Static(1, 1), ret |-> NoCaps]]]

(* A thread calls from_static(str). *)
CallFromStatic(t, str) ==
    /\ out.th[t].at \in {"idle", "returned"}
    /\ out.calls < MaxCalls
    /\ out' = [out EXCEPT !.calls = @ + 1,
                          !.th[t] = [at |-> "lock", str |-> str, ret |-> NoCaps]]
    /\ UNCHANGED <<pc, inp>>

(* CACHE.get_or_init(..).lock().unwrap(): the thread has the mutex. *)
LockCache(t) ==
    /\ out.th[t].at = "lock"
    /\ out.holder = NoThread
    /\ out' = [out EXCEPT !.holder = t, !.th[t].at = "entry"]
    /\ UNCHANGED <<pc, inp>>

Cached(cache, addr) == {c \in cache : c.addr = addr}

(* cache.entry(str.as_ptr() as usize): a vacant entry takes Tag::new(str), *)
(* an occupied one gives its tag; the guard is dropped on return.          *)
from_static(cache, str) ==
    IF Cached(cache, str.ptr) = {}
    THEN [cache |-> cache \cup {[addr |-> str.ptr, tag |-> TagNew(Content(str))]},
          ret |-> TagNew(Content(str))]
    ELSE [cache |-> cache, ret |-> (CHOOSE c \in Cached(cache, str.ptr) : TRUE).tag]

LookUp(t) ==
    /\ out.th[t].at = "entry"
    /\ out.holder = t
    /\ out' = [out EXCEPT !.cache = from_static(out.cache, out.th[t].str).cache,
                          !.holder = NoThread,
                          !.th[t].at = "returned",
                          !.th[t].ret = from_static(out.cache, out.th[t].str).ret]
    /\ UNCHANGED <<pc, inp>>

CacheNext ==
    \E t \in Threads :
        \/ \E str \in inp.statics : CallFromStatic(t, str)
        \/ LockCache(t)
        \/ LookUp(t)

SpecCache == CacheInit /\ [][CacheNext]_vars

Returned(t) == pc = "cache" /\ out.th[t].at = "returned"

(* C25: the cache is transparent.  After any calls of from_static, from    *)
(* any threads in any interleaving, from_static(s) returns the Tag that    *)
(* Tag::new(s) returns, for every static string s, two different strings   *)
(* that start at the same address included.                                *)
C25_CacheTransparent ==
    \A t \in Threads : Returned(t) => out.th[t].ret = TagNew(Content(out.th[t].str))

(* Entries are never removed or changed, and one address has one entry. *)
C25_CacheAppendOnly ==
    [][out.cache \subseteq out'.cache
       /\ \A c, d \in out'.cache : c.addr = d.addr => c = d]_vars

(* The mutex: one thread at most is at the entry, and it holds the lock. *)
C25_OneThreadInCache ==
    pc = "cache" =>
        \A t, u \in Threads :
            (out.th[t].at = "entry" /\ out.th[u].at = "entry") => (t = u /\ out.holder = t)

(* What is returned is the tag of the string that came first at the        *)
(* address: transparent when no two strings of the program share their     *)
(* start.                                                                  *)
C25_TransparentPerAddress ==
    \A t \in Threads :
        Returned(t) =>
            /\ \E str \in inp.statics :
                  str.ptr = out.th[t].str.ptr /\ out.th[t].ret = TagNew(Content(str))
            /\ (\A str, other \in inp.statics : str.ptr = other.ptr => str = other)
                  => out.th[t].ret = TagNew(Content(out.th[t].str))

(* "a" after "a:bc" at the same address comes back as prefix a, local bc. *)
C25_PrefixStringMistaken ==
    \E t \in Threads :
        /\ Returned(t) /\ out.th[t].str = Static(1, 1)
        /\ out.th[t].ret.p = Some(S(<<"a">>)) /\ out.th[t].ret.e = S(<<"b", "c">>)

---------------------------------------------------------------------------
(* The lookahead.                                                          *)

(* What a peek or a read may not touch, and what a read takes. *)
Consumed(de) == <<de.pos, de.depth, de.is_map_value>>

(* The deserializer of the record being read, while it has not failed. *)
MapDe == out.map.de

Reading == pc \in {"key", "value", "map_done"} /\ ~Failed(MapDe)

(* C26: the lookahead discipline.  A peek consumes no event and leaves the *)
(* depth and "is map value" as they are, however many peeks there are;     *)
(* every operation that peeks has consumed or reset the lookahead when it  *)
(* is done, so the next operation's peek shows the first event not yet     *)
(* consumed; and a read returns that event, peeked at or not.              *)
C26_LookaheadDiscipline ==
    Reading =>
        /\ MapDe.pk = 0
        /\ Peeked(MapDe) = EventAt(MapDe, MapDe.pos)
        /\ Consumed(peek(MapDe)) = Consumed(MapDe)
        /\ Consumed(peek(peek(MapDe))) = Consumed(MapDe)
        /\ Taken(peek(peek(MapDe))) = EventAt(MapDe, MapDe.pos)
        /\ ~Failed(peek(peek(MapDe))) => next(peek(peek(MapDe))) = next(MapDe)
        /\ ~Failed(next(MapDe)) => next(MapDe).pos = MapDe.pos + 1 /\ next(MapDe).pk = 0

(* Whole decodes (options, sequences, enums, records, skips) return with   *)
(* the lookahead reset.                                                    *)
C26_ResetOnReturn ==
    (pc \in {"decoded", "value_decoded"} /\ out.ok) => out.de.pk = 0

(* An optional field after another child: deserialize_option has peeked  *)
(* at the start of the element and at the text behind it, has reset the    *)
(* lookahead before the value was read, and the key after it is peeked     *)
(* from the first event not consumed.                                      *)
C26_TwoPeeksThenReset ==
    /\ pc = "key" /\ ~Failed(MapDe) /\ MapDe.pk = 0
    /\ out.last.some /\ out.last.key = S(<<"s">>) /\ out.last.nth = 2
    /\ EventAt(MapDe, MapDe.pos - 3).t = "Start"
    /\ EventAt(MapDe, MapDe.pos - 2).t = "Chars"
    /\ EventAt(MapDe, MapDe.pos - 1).t = "End"
    /\ Peeked(MapDe).t = "Start"

---------------------------------------------------------------------------
(* The nesting depth.                                                      *)

EmptyS == EmptyElement(S(<<"s">>), <<>>, {})

DepthKids == MapKids \cup {EmptyS}

(* Records with an optional field, and with an optional $value. *)
DepthFieldLists ==
    {<<FTDefault(S(<<"b">>), TString), FTDefault(S(<<"s">>), TOption(TString)),
       FTDefault(ValueSentinel, TOption(TString))>>,
     <<FTDefault(S(<<"b">>), TString), FTDefault(S(<<"s">>), TOption(TString))>>}

DepthInputs ==
    {[fam |-> "depth", fields |-> fields,
      events |-> ReadEvents(<<Mk(DeclToken)>> \o Element(S(<<"r">>), attrs, {}, Concat(kids)))] :
        fields \in DepthFieldLists, attrs \in {<<>>, <<AttrA>>},
        kids \in {ks \in SeqsUpTo(DepthKids, 0, MaxKids) :
                    \A i, j \in 1..Len(ks) : ks[i] = ks[j] => i = j}}

DepthInit == pc = "map" /\ inp \in DepthInputs /\ out = NoOut

(* read_inner_value_attrs after visit_map: the end of the record's         *)
(* element is asked for.                                                   *)
LeaveRecord ==
    /\ pc = "map_done"
    /\ pc' = "left"
    /\ out' = [out EXCEPT !.map.de = expect_end_element(out.map.de, inp.events[2].name)]
    /\ UNCHANGED inp

DepthNext == EnterRecord \/ NextKey \/ NextValue \/ LeaveRecord

SpecDepth == DepthInit /\ [][DepthNext]_vars

InRecord == pc \in {"key", "value", "map_done", "left"} /\ ~Failed(MapDe)

(* The depth is the number of starts consumed less the number of ends      *)
(* consumed, and is not negative.                                          *)
DepthCounted ==
    InRecord => MapDe.depth = DepthAt(inp.events, MapDe.pos) /\ MapDe.depth >= 0

(* A value read that returns successfully returns at the depth it was      *)
(* entered at, and at no event it consumed was the depth below that.       *)
ValueBalanced ==
    (pc = "value" /\ pc' = "key") =>
        /\ out'.map.de.depth = MapDe.depth
        /\ \A at \in MapDe.pos..out'.map.de.pos :
               DepthAt(inp.events, at) >= MapDe.depth

(* The record left with success is left at depth 0. *)
LeftBalanced == (pc = "left" /\ ~Failed(MapDe)) => MapDe.depth = 0

(* C27: depth balance.  The depth always equals the element starts         *)
(* consumed less the element ends consumed and is never negative; every    *)
(* value read that returns successfully has consumed whole elements only   *)
(* and returns at the depth it was entered at; the record decoded with     *)
(* success is left at depth 0.                                             *)
C27_DepthBalance == [](DepthCounted /\ LeftBalanced) /\ [][ValueBalanced]_vars

(* What holds: the count, and depth 0 after a record that succeeded. *)
C27_DepthCounted == DepthCounted /\ LeftBalanced

(* The last value read was the optional $value, from a text that is not    *)
(* the first child read.                                                   *)
TextOptionRead ==
    /\ out.key = Some(ValueSentinel)
    /\ FieldIndex(inp.fields, ValueSentinel) # 0
    /\ out.text /\ out.got \ {k \in out.got : StartsWith(k, AttrSentinel)} # {}

(* Every value read but that one is balanced. *)
C27_OtherReadsBalanced == [][(pc = "value" /\ ~TextOptionRead) => ValueBalanced]_vars

(* That one is not: deserialize_option, entered with the flag set, peeks   *)
(* past the text at the end of the record's element, takes both and        *)
(* returns None one level up; the record then fails at the end of the      *)
(* document.                                                               *)
C27_OptionTakesParentEnd ==
    [][(pc = "value" /\ TextOptionRead /\ Peeked(peek(MapDe)).t = "End") =>
          /\ pc' = "key"
          /\ out'.map.de.depth = MapDe.depth - 1
          /\ out'.map.de.pos = MapDe.pos + 2
          /\ Failed(expect_end_element(next_key_seed(out'.map).map.de, inp.events[2].name))]_vars

C27_ReturnedOneLevelUp ==
    pc = "key" /\ ~Failed(MapDe) /\ MapDe.depth = 0 /\ out.last.key = ValueSentinel

---------------------------------------------------------------------------
(* Enums step by step: the variant, then its content.                      *)

VariantA == S(<<"a">>)
VariantB == S(<<"b">>)

EnumShapes ==
    {<<UnitV(VariantA), UnitV(VariantB)>>,
     <<UnitV(VariantA), NewtypeV(VariantB, TString)>>,
     <<NewtypeV(VariantA, TString), UnitV(VariantB)>>,
     <<StructV(VariantA, <<FTDefault(S(<<"c">>), TString)>>), UnitV(VariantB)>>}

VariantKids ==
    {VariantA, <<Cd(VariantB)>>,
     EmptyElement(VariantA, <<>>, {}),
     EmptyElement(VariantA, <<AttrA>>, {}),
     Element(VariantA, <<>>, {}, S(<<"z">>)),
     EmptyElement(VariantB, <<>>, {}) \o S(<<"t">>),
     Element(S(<<"e">>), <<>>, {}, VariantA),
     Element(S(<<"e">>), <<>>, {}, EmptyElement(VariantB, <<>>, {})),
     Element(S(<<"e">>), <<>>, {}, <<>>),
     EmptyElement(S(<<"c">>), <<>>, {}),
     Truncated("a", S(<<"z">>))}

VariantInputs ==
    UNION {LET doc == <<Mk(DeclToken), OpenTag(S(<<"r">>), <<>>, {})>> \o kid
                      \o (IF kid = Truncated("a", S(<<"z">>)) THEN <<>>
                          ELSE <<CloseTag(S(<<"r">>))>>)
               events == ReadEvents(doc)
           IN  {[fam |-> "variant", events |-> events, at |-> at, flag |-> flag,
                 variants |-> variants] :
                    at \in 3..(Len(events) + 1), flag \in BOOLEAN,
                    variants \in EnumShapes}
           : kid \in VariantKids}

VariantInit == pc = "enum" /\ inp \in VariantInputs /\ out = NoOut

(* deserialize_enum up to Enum::new: read_inner_value takes the start of   *)
(* the pending element when "is map value" is set.                         *)
EnterEnum ==
    /\ pc = "enum"
    /\ LET de == AtEvent(inp.events, inp.at, inp.flag)
           inner == IF de.is_map_value /\ ~Failed(InnerDe(de)) /\ Taken(de).t # "Start"
                    THEN Fail(InnerDe(de), "ExpectedElement") ELSE InnerDe(de)
       IN  /\ pc' = IF Failed(inner) THEN "enum_failed" ELSE "seed"
           /\ out' = [de |-> inner, seen |-> NoEvent, variant |-> 0]
    /\ UNCHANGED inp

(* Enum::variant_seed, seen being the event it inspects. *)
VariantSeed ==
    /\ pc = "seed"
    /\ LET r == variant_seed(inp.variants, out.de)
       IN  /\ pc' = IF Failed(r.de) THEN "enum_failed" ELSE "variant"
           /\ out' = [de |-> r.de, seen |-> Peeked(out.de), variant |-> r.variant]
    /\ UNCHANGED inp

(* Enum::unit_variant, when the derived visitor chose a unit variant. *)
UnitVariant ==
    /\ pc = "variant"
    /\ inp.variants[out.variant].kind = "unit"
    /\ pc' = "unit_done"
    /\ out' = [out EXCEPT !.de = unit_variant(out.de)]
    /\ UNCHANGED inp

(* newtype_variant_seed and struct_variant for the other kinds. *)
PayloadVariant ==
    /\ pc = "variant"
    /\ inp.variants[out.variant].kind # "unit"
    /\ pc' = "payload_done"
    /\ out' = [out EXCEPT !.de = VisitVariant(inp.variants, [de |-> out.de, variant |-> out.variant]).de]
    /\ UNCHANGED inp

VariantNext == EnterEnum \/ VariantSeed \/ UnitVariant \/ PayloadVariant

SpecVariant == VariantInit /\ [][VariantNext]_vars

(* C28: the unreachable!() branch of unit_variant is never executed.       *)
(* When variant_seed has returned a variant, the next unconsumed event is  *)
(* the element start, character data or CDATA event it inspected, and      *)
(* unit_variant, run on it, ends in one of its three other branches.       *)
C28_UnitVariantBranchUnreachable ==
    /\ pc = "variant" =>
          /\ ~Failed(out.de) /\ out.de.pk = 0
          /\ Taken(out.de) = out.seen
          /\ out.seen.t \in {"Start", "Chars", "CData"}
    /\ pc = "unit_done" =>
          /\ out.de.err # "Panic"
          /\ out.seen.t \in {"Start", "Chars", "CData"}
          /\ out.de.pos > inp.at

(* A unit variant written as an empty element, read with success. *)
C28_UnitFromElement ==
    /\ pc = "unit_done" /\ ~Failed(out.de) /\ out.seen.t = "Start"
    /\ inp.events[out.de.pos - 1].t = "End"

---------------------------------------------------------------------------
(* The attributes of a node and the element that owns them.                *)

OwnerPlaces ==
    {"root", "node", "seq", "inline", "inline_raw", "inline_seq", "nested_seq"}

HostH == S(<<"h">>)

(* The record fs as the root value, as the node of the entry h, as a       *)
(* member of its sequence, inlined in h through $value and $valueRaw, and  *)
(* as a member of a sequence that has no tag of its own.                   *)
Owned(place, fs) ==
    CASE place = "root" -> VStruct(fs)
      [] place = "node" -> VStruct(<<FV(HostH, VStruct(fs))>>)
      [] place = "seq" -> VStruct(<<FV(HostH, VSeq(<<VStruct(fs), VStruct(fs)>>))>>)
      [] place = "inline" ->
            VStruct(<<FV(HostH, VStruct(<<FV(ValueSentinel, VStruct(fs))>>))>>)
      [] place = "inline_raw" ->
            VStruct(<<FV(HostH, VStruct(<<FV(ValueRawSentinel, VStruct(fs))>>))>>)
      [] place = "inline_seq" ->
            VStruct(<<FV(HostH, VStruct(<<FV(ValueSentinel, VSeq(<<VStruct(fs)>>))>>))>>)
      [] place = "nested_seq" ->
            VStruct(<<FV(HostH, VSeq(<<VSeq(<<VStruct(fs)>>)>>))>>)

OwnerInputs ==
    {[fam |-> "owner", place |-> place, rec |-> fs, v |-> Owned(place, fs)] :
        place \in OwnerPlaces, fs \in RoutingRecords}

OwnerInit == pc = "rawmode" /\ inp \in OwnerInputs /\ out = NoOut

SpecOwner == OwnerInit /\ [][RawModeNext]_vars

(* The record without its attribute fields. *)
PlainOnly(fs) == SelectSeq(fs, LAMBDA f : ~IsAttrKey(f.key))

(* The attribute list of the record: name and text of each attribute       *)
(* field, in declaration order.                                            *)
AttrListOf(fs) ==
    LET flagged == SelectSeq(fs, LAMBDA f : IsAttrKey(f.key))
    IN  [i \in 1..Len(flagged) |->
            [name |-> Name(AttrLocal(flagged[i].key), None, None),
             value |-> AsStr(Serialize(flagged[i].v))]]

---------------------------------------------------------------------------
(* A string read through a wrapping element that has element children.     *)

ElementD ==
    Element(S(<<"d">>), <<AttrA>>, {}, EmptyElement(S(<<"c">>), <<>>, {}) \o S(<<"t">>))

WrapKids ==
    {EmptyElement(S(<<"c">>), <<>>, {}), Element(S(<<"c">>), <<>>, {}, S(<<"z">>)),
     ElementD, S(<<"t">>)}

(* The wrapper b with its children, pending as the value of a field. *)
WrapInputs ==
    {LET doc == DocOf(Element(S(<<"b">>), <<>>, {}, Concat(kids)))
     IN  [fam |-> "wrap", doc |-> doc, events |-> ReadEvents(doc), at |-> 3,
          flag |-> TRUE, ty |-> TString, kids |-> kids] :
        kids \in SeqsUpTo(WrapKids, 1, MaxKids)}

WrapInit == pc = "scalar" /\ inp \in WrapInputs /\ out = NoOut

SpecWrap == WrapInit /\ [][ScalarNext]_vars

(* The event that ends the element started at event i. *)
EndOf(events, i) ==
    Min({j \in (i + 1)..Len(events) : DepthAt(events, j + 1) = DepthAt(events, i)})

FirstChildIsElement == inp.events[4].t = "Start"

(* C30: raw capture takes one child.  When a string is read through a      *)
(* wrapping element whose first child is an element, the capture stops at  *)
(* that child's matching end, the string holds that one subtree only, and  *)
(* the read succeeds only if the wrapper closes immediately afterwards; a   *)
(* further child element or trailing text makes it fail with               *)
(* ExpectedElement.                                                        *)
C30_CaptureTakesOneChild ==
    (pc = "scalar_read" /\ FirstChildIsElement) =>
        LET close == EndOf(inp.events, 4)
        IN  /\ out.ok <=> inp.events[close + 1].t = "End"
            /\ out.ok <=> Len(inp.kids) = 1
            /\ out.ok =>
                  /\ out.de.pos = close + 2
                  /\ out.de.depth = DepthAt(inp.events, 3)
                  /\ ReadEvents(out.val.s)
                        = <<RStartDocument>> \o SubSeq(inp.events, 4, close)
                            \o <<REndDocument>>
            /\ ~out.ok =>
                  /\ out.err = "ExpectedElement"
                  /\ out.de.pos = close + 2

(* The wrapper holds one child with an attribute, a child of its own and   *)
(* text: the string is that subtree.                                       *)
C30_SubtreeCaptured ==
    /\ pc = "scalar_read" /\ inp.kids = <<ElementD>> /\ out.ok
    /\ Len(ReadEvents(out.val.s)) = 7

(* A second child after the first: the read fails. *)
C30_SecondChildFails ==
    /\ pc = "scalar_read" /\ FirstChildIsElement /\ Len(inp.kids) = 2
    /\ inp.events[EndOf(inp.events, 4) + 1].t = "Start"
    /\ out.err = "ExpectedElement"

=============================================================================
